---- MODULE Spec2Model ----
(***************************************************************************)
(* VibeDB schema evolution engine: the SchemaGuard (src/src/guard.rs), the *)
(* storage calls it makes (src/src/db.rs) and the type inferencer          *)
(* (src/src/inference.rs).                                                 *)
(*                                                                         *)
(* A string is a sequence of one-character strings, so that the identifier *)
(* rules are computed character by character as the code computes them.    *)
(* Every await of the guard on the storage engine is a separate step of    *)
(* the calling task; the engine serves one call at a time (one connection, *)
(* tokio_rusqlite), so one storage call is one atomic step.                *)
(***************************************************************************)
EXTENDS Integers, Sequences, FiniteSets, TLC

VARIABLES
    catalog,    \* the engine's catalog: table name -> set of ColumnInfo ({} = no such table)
    cache,      \* SchemaGuard.schema_cache: a partial map table name -> set of ColumnInfo
    proc,       \* the request tasks: the call each one is running and how far it got
    calls,      \* number of guard calls started so far (bounded by MaxCalls)
    last,       \* the call that returned most recently, as it stood when it returned
    settled,    \* history: per table, the columns added by ensure_columns calls that returned Ok
    ref,        \* history: what a guard without a cache answers to the call in flight (SpecSeq)
    arg,        \* the input of a pure function of the engine (the specifications of pure functions)
    val,        \* what the function returned for it
    handler,    \* per task, the HTTP handler it runs on top of its guard calls (push_handler)
    rows,       \* per table, the rows in rowid order: each row is the task whose request inserted it
    conn,       \* the one SQLite connection: its last_insert_rowid
    sessions,   \* the rows of vibe_sessions: refresh_token, user_id, expires_at
    issued,     \* history: every session ever created, in order; issued[k] holds refresh token k
    now,        \* the system clock, in days
    auth,       \* per task, the AuthService::refresh call it runs
    buckets,    \* the rows of vibe_buckets: the bucket names
    objects,    \* the rows of vibe_objects: bucket_name, path
    dirs,       \* the bucket directories under storage_path
    files,      \* the files under storage_path: bucket, path
    uploaded,   \* history: the objects for which upload_object returned Ok
    storage     \* per task, the StorageService call it runs

\* The state of the guard and of the catalog it works on
guard_vars == <<catalog, cache, proc, calls, last, settled, ref>>

\* The state outside the guard: the handlers, the rows and the connection
\* The state of the authentication service
auth_vars == <<sessions, issued, now, auth>>

\* The state of the storage service
storage_vars == <<buckets, objects, dirs, files, uploaded, storage>>

app_vars == <<handler, rows, conn, auth_vars, storage_vars>>

vars == <<catalog, cache, proc, calls, last, settled, ref, arg, val, app_vars>>

----------------------------------------------------------------------------
(* Bounds of the model *)

NumTasks == 2
\* SpecAuth: the clock stops at MaxNow days; no refresh starts once MaxSessions
\* sessions have been created
MaxNow == 8
MaxSessions == 3
\* DEFAULT_REFRESH_TOKEN_DURATION (7 * 24 * 3600 seconds), in days
DEFAULT_REFRESH_TOKEN_DURATION == 7
\* 100 * 1024 * 1024 bytes
MAX_FILE_SIZE == 104857600
MaxCalls == 3

(* Program constants *)

MAX_COLUMNS_PER_TABLE == 1000
MAX_IDENTIFIER_LEN == 128
SANITIZE_MAX_LEN == 128

----------------------------------------------------------------------------
(* Characters and identifiers *)

LowerSeq == <<"a","b","c","d","e","f","g","h","i","j","k","l","m","n","o","p","q","r","s","t","u","v","w","x","y","z">>
UpperSeq == <<"A","B","C","D","E","F","G","H","I","J","K","L","M","N","O","P","Q","R","S","T","U","V","W","X","Y","Z">>
DigitSeq == <<"0","1","2","3","4","5","6","7","8","9">>

Range(s) == { s[i] : i \in DOMAIN s }

LowerSet == Range(LowerSeq)
UpperSet == Range(UpperSeq)
DigitSet == Range(DigitSeq)

is_ascii_alphabetic(c) == c \in LowerSet \/ c \in UpperSet
is_ascii_alphanumeric(c) == is_ascii_alphabetic(c) \/ c \in DigitSet

UpperOf == [c \in LowerSet |-> UpperSeq[CHOOSE i \in DOMAIN LowerSeq : LowerSeq[i] = c]]

to_uppercase_char(c) == IF c \in LowerSet THEN UpperOf[c] ELSE c

to_uppercase(name) == [i \in DOMAIN name |-> to_uppercase_char(name[i])]

RESERVED_KEYWORDS ==
    { <<"S","E","L","E","C","T">>,
      <<"F","R","O","M">>,
      <<"W","H","E","R","E">>,
      <<"I","N","S","E","R","T">>,
      <<"U","P","D","A","T","E">>,
      <<"D","E","L","E","T","E">>,
      <<"C","R","E","A","T","E">>,
      <<"T","A","B","L","E">>,
      <<"D","R","O","P">>,
      <<"A","L","T","E","R">>,
      <<"I","N","D","E","X">>,
      <<"A","N","D">>,
      <<"O","R">>,
      <<"N","O","T">>,
      <<"N","U","L","L">>,
      <<"T","R","U","E">>,
      <<"F","A","L","S","E">>,
      <<"P","R","I","M","A","R","Y">>,
      <<"K","E","Y">>,
      <<"F","O","R","E","I","G","N">>,
      <<"R","E","F","E","R","E","N","C","E","S">>,
      <<"U","N","I","Q","U","E">>,
      <<"C","H","E","C","K">>,
      <<"D","E","F","A","U","L","T">>,
      <<"A","S">>,
      <<"O","R","D","E","R">>,
      <<"B","Y">>,
      <<"G","R","O","U","P">>,
      <<"H","A","V","I","N","G">>,
      <<"L","I","M","I","T">>,
      <<"O","F","F","S","E","T">>,
      <<"J","O","I","N">>,
      <<"L","E","F","T">>,
      <<"R","I","G","H","T">>,
      <<"I","N","N","E","R">>,
      <<"O","U","T","E","R">>,
      <<"O","N">>,
      <<"C","A","S","E">>,
      <<"W","H","E","N">>,
      <<"T","H","E","N">>,
      <<"E","L","S","E">>,
      <<"E","N","D">>,
      <<"U","N","I","O","N">>,
      <<"A","L","L">>,
      <<"D","I","S","T","I","N","C","T">>,
      <<"V","A","L","U","E","S">>,
      <<"S","E","T">>,
      <<"I","N">>,
      <<"B","E","T","W","E","E","N">>,
      <<"L","I","K","E">>,
      <<"I","S">>,
      <<"E","X","I","S","T","S">>,
      <<"E","X","C","E","P","T">>,
      <<"I","N","T","E","R","S","E","C","T">> }

\* A character outside ASCII is written by its code point; U+00E9 takes two bytes in UTF-8
C_eacute == "U+00E9"

utf8_len(c) == IF c = C_eacute THEN 2 ELSE 1

\* str::len(): the length in bytes, counted as the bytes of every character
byte_len(name) == Cardinality(UNION { {i} \X (1..utf8_len(name[i])) : i \in DOMAIN name })

\* ^[a-zA-Z_][a-zA-Z0-9_]*$
IDENTIFIER_REGEX_is_match(name) ==
    /\ Len(name) >= 1
    /\ is_ascii_alphabetic(name[1]) \/ name[1] = "_"
    /\ \A i \in 2..Len(name) : is_ascii_alphanumeric(name[i]) \/ name[i] = "_"

\* TRUE when validate_identifier returns Ok(()), FALSE when it returns InvalidIdentifier
\* Mutant: the reserved words are compared without upper-casing the name
validate_identifier_case_sensitive(name) ==
    IF name = <<>> \/ byte_len(name) > MAX_IDENTIFIER_LEN THEN FALSE
    ELSE IF ~IDENTIFIER_REGEX_is_match(name) THEN FALSE
    ELSE IF name \in RESERVED_KEYWORDS THEN FALSE
    ELSE TRUE

validate_identifier(name) ==
    IF name = <<>> \/ byte_len(name) > MAX_IDENTIFIER_LEN THEN FALSE
    ELSE IF ~IDENTIFIER_REGEX_is_match(name) THEN FALSE
    ELSE IF to_uppercase(name) \in RESERVED_KEYWORDS THEN FALSE
    ELSE TRUE

\* Mutant: a digit after the first position is replaced too
sanitize_char_no_digits(i, c) ==
    IF is_ascii_alphabetic(c) \/ c = "_" THEN c ELSE "_"

\* The closure of sanitize_identifier: i is the position (the first is 1 here), c the character
sanitize_char(i, c) ==
    IF i = 1
    THEN IF is_ascii_alphabetic(c) \/ c = "_" THEN c ELSE "_"
    ELSE IF is_ascii_alphanumeric(c) \/ c = "_" THEN c ELSE "_"

\* sanitized.chars().take(128)
take(name, n) == SubSeq(name, 1, IF Len(name) < n THEN Len(name) ELSE n)

sanitize_identifier(name) ==
    take([i \in DOMAIN name |-> sanitize_char(i, name[i])], SANITIZE_MAX_LEN)

----------------------------------------------------------------------------
(* JSON values (serde_json::Value) and type inference *)

\* kind: the Value variant; num: for a Number, the variant serde_json keeps it in
JNull   == [kind |-> "Null",   num |-> "-"]
JBool   == [kind |-> "Bool",   num |-> "-"]
JPosInt == [kind |-> "Number", num |-> "PosInt"]
JNegInt == [kind |-> "Number", num |-> "NegInt"]
JFloat  == [kind |-> "Number", num |-> "Float"]
JString == [kind |-> "String", num |-> "-"]
JArray  == [kind |-> "Array",  num |-> "-"]
JObject == [kind |-> "Object", num |-> "-"]

is_null(v) == v.kind = "Null"

\* Number::is_i64() || Number::is_u64(): true of the integer variants, false of a float
is_i64_or_u64(v) == v.num \in {"PosInt", "NegInt"}

infer_type(v) ==
    CASE v.kind = "Null"   -> "Null"
      [] v.kind = "Bool"   -> "Integer"
      [] v.kind = "Number" -> IF is_i64_or_u64(v) THEN "Integer" ELSE "Real"
      [] v.kind = "String" -> "Text"
      [] OTHER             -> "Text"

\* Mutant: NULL is not promoted to anything
can_promote_to_null_fixed(self, other) ==
    IF self = other THEN TRUE
    ELSE IF self = "Integer" /\ other = "Real" THEN TRUE
    ELSE IF other = "Text" THEN TRUE
    ELSE FALSE

\* SqliteType::can_promote_to(self, other)
can_promote_to(self, other) ==
    IF self = other THEN TRUE
    ELSE IF self = "Integer" /\ other = "Real" THEN TRUE
    ELSE IF other = "Text" THEN TRUE
    ELSE IF self = "Null" THEN TRUE
    ELSE FALSE

\* Mutant: two types without a common promotion keep the first
common_type_keep_first(a, b) ==
    IF a = b THEN a
    ELSE IF a = "Null" THEN b
    ELSE IF b = "Null" THEN a
    ELSE IF {a, b} = {"Integer", "Real"} THEN "Real"
    ELSE a

\* SqliteType::common_type(a, b)
common_type(a, b) ==
    IF a = b THEN a
    ELSE IF a = "Null" THEN b
    ELSE IF b = "Null" THEN a
    ELSE IF {a, b} = {"Integer", "Real"} THEN "Real"
    ELSE "Text"

as_sql(ty) ==
    CASE ty = "Integer" -> "INTEGER"
      [] ty = "Real"    -> "REAL"
      [] ty = "Text"    -> "TEXT"
      [] ty = "Blob"    -> "BLOB"
      [] OTHER          -> "NULL"

----------------------------------------------------------------------------
(* Names, documents and columns of the model *)

N_id         == <<"i","d">>
N_created_at == <<"c","r","e","a","t","e","d","_","a","t">>
N_updated_at == <<"u","p","d","a","t","e","d","_","a","t">>
N_x          == <<"x">>
N_y          == <<"y">>
N_badkey     == <<"x","-","1">>

T_t   == <<"t">>
T_bad == <<"a","-","b">>

Tables == {T_t, T_bad}

\* A document is the sequence of its (key, value) entries in the order the map iterates them
Entry(k, v) == [key |-> k, val |-> v]

DocX       == << Entry(N_x, JPosInt) >>
DocXY      == << Entry(N_x, JPosInt), Entry(N_y, JString) >>
DocY       == << Entry(N_y, JFloat) >>
DocNull    == << Entry(N_x, JNull) >>
DocBadKey  == << Entry(N_x, JPosInt), Entry(N_badkey, JPosInt) >>
DocBadNull == << Entry(N_badkey, JNull) >>

\* The documents of Spec and SpecSeq ({"x": 1} alone is the document of SpecRace)
Docs == {DocXY, DocY, DocNull, DocBadKey, DocBadNull}

\* The (table, document) pairs ensure_columns is called with
ColumnInputs == ({T_t} \X Docs) \cup ({T_bad} \X {DocNull})

ColumnInfo(n, ty, nn, isPk) == [name |-> n, col_type |-> ty, notnull |-> nn, pk |-> isPk]

\* The base schema of CREATE TABLE, as PRAGMA table_info reports it
BaseColumns ==
    { ColumnInfo(N_id, "INTEGER", FALSE, TRUE),
      ColumnInfo(N_created_at, "DATETIME", FALSE, FALSE),
      ColumnInfo(N_updated_at, "DATETIME", FALSE, FALSE) }

Names(schema) == { c.name : c \in schema }

----------------------------------------------------------------------------
(* The storage engine (VibeStore over one SQLite connection) *)

\* The SQL text parses only when the interpolated name is a bare identifier
sql_name_parses(name) == IDENTIFIER_REGEX_is_match(name)

\* PRAGMA table_info(t): the columns of t, none for a table that does not exist
fetch_table_info(cat, t) ==
    IF sql_name_parses(t)
    THEN [ok |-> TRUE, columns |-> cat[t]]
    ELSE [ok |-> FALSE, columns |-> {}]

\* Mutant: CREATE TABLE without IF NOT EXISTS fails on an existing table
create_table_plain(cols) ==
    IF cols = {} THEN [ok |-> TRUE, cols |-> BaseColumns]
    ELSE [ok |-> FALSE, cols |-> cols]

\* CREATE TABLE IF NOT EXISTS t (id ..., created_at ..., updated_at ...)
create_table_if_not_exists(cols) ==
    IF cols = {} THEN [ok |-> TRUE, cols |-> BaseColumns]
    ELSE [ok |-> TRUE, cols |-> cols]

\* Mutant: a column that exists is given the type of the new value
alter_add_column_retyped(cols, name, ty) ==
    IF cols = {} THEN [ok |-> FALSE, cols |-> cols]
    ELSE [ok |-> TRUE,
          cols |-> { c \in cols : to_uppercase(c.name) # to_uppercase(name) }
                       \cup {ColumnInfo(name, ty, FALSE, FALSE)}]

\* ALTER TABLE t ADD COLUMN name type DEFAULT NULL; SQLite compares column names
\* without regard to case
alter_add_column(cols, name, ty) ==
    IF cols = {} THEN [ok |-> FALSE, cols |-> cols]
    ELSE IF \E c \in cols : to_uppercase(c.name) = to_uppercase(name)
    THEN [ok |-> FALSE, cols |-> cols]
    ELSE [ok |-> TRUE, cols |-> cols \cup {ColumnInfo(name, ty, FALSE, FALSE)}]

\* The closure add_columns hands to with_transaction: the statements in order,
\* stopping at the first that fails
RECURSIVE run_migrations(_, _)
run_migrations(cols, migrations) ==
    IF migrations = <<>> THEN [ok |-> TRUE, cols |-> cols]
    ELSE LET r == alter_add_column(cols, Head(migrations).col_name, Head(migrations).col_type)
         IN IF r.ok THEN run_migrations(r.cols, Tail(migrations))
            ELSE [ok |-> FALSE, cols |-> cols]

\* Mutant: the statements run without a transaction, so what ran before the
\* failing statement stays
without_transaction(cols, migrations) == run_migrations(cols, migrations)

\* BEGIN IMMEDIATE; f(tx)?; COMMIT: an error drops the transaction, which rolls back
with_transaction(cols, migrations) ==
    LET r == run_migrations(cols, migrations)
    IN IF r.ok THEN r ELSE [ok |-> FALSE, cols |-> cols]

----------------------------------------------------------------------------
(* SchemaGuard: the pure parts of ensure_columns *)

\* Mutant: only the first key is validated
keys_valid_first_only(doc) == doc = <<>> \/ validate_identifier(doc[1].key)

\* for key in obj.keys() { validate_identifier(key)? }
keys_valid(doc) == \A i \in DOMAIN doc : validate_identifier(doc[i].key)

\* Mutant: the filter forgets !val.is_null()
is_new_column_with_null(e, existing) == e.key \notin existing

is_new_column(e, existing) == ~is_null(e.val) /\ e.key \notin existing

new_columns(doc, existing) == SelectSeq(doc, LAMBDA e : is_new_column(e, existing))

\* Mutant: >= instead of >
exceeds_limit_at(total) == total >= MAX_COLUMNS_PER_TABLE

exceeds_limit(total) == total > MAX_COLUMNS_PER_TABLE

migrations_of(cols) ==
    [i \in DOMAIN cols |-> [col_name |-> cols[i].key, col_type |-> as_sql(infer_type(cols[i].val))]]

\* Mutant: the filter forgets !val.is_null()
is_insert_column_with_null(e) ==
    e.key # N_id /\ e.key # N_created_at /\ e.key # N_updated_at

\* Mutant: the filter forgets the system columns
is_insert_column_with_system(e) == ~is_null(e.val)

is_insert_column(e) ==
    ~is_null(e.val) /\ e.key # N_id /\ e.key # N_created_at /\ e.key # N_updated_at

insert_columns(doc) ==
    LET kept == SelectSeq(doc, is_insert_column)
    IN [i \in DOMAIN kept |-> kept[i].key]

----------------------------------------------------------------------------
(* The request tasks *)

Tasks == 1..NumTasks

\* pc: where the task is in its call.
\*   idle | fetch (awaiting PRAGMA) | insert (fetched, about to write the cache) |
\*   create (awaiting CREATE TABLE) | alter (awaiting the ALTER batch) |
\*   remove (DDL done, about to invalidate) | count (awaiting SELECT COUNT) |
\*   done (returned: the state a call is kept in as `last`)
\* schema/newcols/res/out/count are the call's locals and its result; the rest is
\* history of what the call did: sql (statements issued), validated (the table
\* name passed validate_identifier in this call), cw (cache writes), pre/post
\* (the table's catalog columns around its DDL), existed (the table had columns
\* in the catalog when the ensure_table call started), expect (the columns that
\* ensure_columns calls which had returned Ok had added to the table when the
\* get_table_stats call started).  holds: the task holds a reference into the
\* cache (the Ref of schema_cache.get, which keeps the shard's lock).
IdleTask ==
    [ pc |-> "idle", op |-> "none", table |-> <<>>, doc |-> <<>>,
      schema |-> {}, resolved |-> FALSE, newcols |-> <<>>,
      res |-> "-", out |-> <<>>, count |-> 0,
      sql |-> {}, validated |-> FALSE, cw |-> {}, pre |-> {}, post |-> {},
      existed |-> FALSE, expect |-> {}, holds |-> FALSE ]

NoRef == [res |-> "-", cols |-> {}, schema |-> {}, out |-> <<>>]

\* No pure function is being applied
NoArg == [fn |-> "none"]

\* A task that runs no handler.  stage: where the handler is: idle |
\* ensure_table, ensure_columns (in the guard call) | insert (awaiting the
\* INSERT) | rowid (awaiting last_insert_rowid) | done (it has answered).
\* existed: the collection had a table when the request arrived; inserted: the
\* rowid of the row the request's INSERT made (0: none); id, res: the answer.
NoHandler ==
    [ stage |-> "idle", collection |-> <<>>, payload |-> <<>>, columns |-> <<>>,
      existed |-> FALSE, inserted |-> 0, id |-> 0, res |-> "-" ]

\* A task's AuthService::refresh call.  stage: idle | delete (the SELECT found
\* the session, awaiting the DELETE) | get_user | create_session | done.
\* refresh_token: the token presented; user_id: the user_id of the row the
\* SELECT returned; started: the clock when the call was made; res: the
\* answer; tokens: the refresh token of the AuthTokens returned (0: none).
NoRefresh ==
    [ stage |-> "idle", refresh_token |-> 0, user_id |-> 0, started |-> 0,
      res |-> "-", tokens |-> 0 ]

\* A task's StorageService call.  op: create_bucket | delete_bucket |
\* upload_object; stage: the await it is at (idle, done: none); res: the answer.
NoStorageCall ==
    [ op |-> "-", stage |-> "idle", bucket |-> <<>>, path |-> <<>>, res |-> "-" ]

\* No request has arrived, no table has rows, the connection has inserted
\* nothing, nobody has signed up and no bucket was created
NoPushes ==
    /\ handler = [p \in Tasks |-> NoHandler]
    /\ rows = [t \in Tables |-> <<>>]
    /\ conn = [last_insert_rowid |-> 0]

NoSessions ==
    /\ sessions = {} /\ issued = <<>> /\ now = 0
    /\ auth = [p \in Tasks |-> NoRefresh]

NoBuckets ==
    /\ buckets = {} /\ objects = {} /\ dirs = {} /\ files = {} /\ uploaded = {}
    /\ storage = [p \in Tasks |-> NoStorageCall]

NoRequests == NoPushes /\ NoSessions /\ NoBuckets

new_call(op, t, d) ==
    [IdleTask EXCEPT !.op = op, !.table = t, !.doc = d,
                     !.existed = (op = "ensure_table" /\ catalog[t] # {}),
                     !.expect = IF op = "get_table_stats" THEN settled[t] ELSE {}]

returns(rec, res) == [rec EXCEPT !.pc = "done", !.res = res]

\* What each operation does once get_table_schema has returned `schema`
after_schema(rec, schema) ==
    LET r == [rec EXCEPT !.schema = schema, !.resolved = TRUE]
    IN CASE rec.op = "ensure_table" ->
              IF schema # {} THEN returns(r, "Ok") ELSE [r EXCEPT !.pc = "create"]
         [] rec.op = "ensure_columns" ->
              LET existing == Names(schema)
                  nc == new_columns(rec.doc, existing)
                  total == Cardinality(existing) + Len(nc)
              IN IF exceeds_limit(total)
                 THEN returns([r EXCEPT !.newcols = nc], "ColumnLimitExceeded")
                 ELSE IF nc # <<>> THEN [r EXCEPT !.pc = "alter", !.newcols = nc]
                 ELSE [returns(r, "Ok") EXCEPT !.out = insert_columns(rec.doc)]
         [] OTHER ->
              IF schema = {} THEN returns(r, "TableNotFound") ELSE [r EXCEPT !.pc = "count"]

\* Mutant: the Ref of a cache hit is kept while the call goes on
cache_lookup_holding_ref(rec) ==
    IF rec.table \in DOMAIN cache
    THEN after_schema([rec EXCEPT !.holds = TRUE], cache[rec.table])
    ELSE [rec EXCEPT !.pc = "fetch"]

\* Mutant: a cache miss is taken for a table without columns, with no fetch
cache_lookup_miss_is_absent(rec) ==
    IF rec.table \in DOMAIN cache
    THEN after_schema(rec, cache[rec.table])
    ELSE after_schema(rec, {})

\* get_table_schema up to its first await: a cache hit returns the entry
cache_lookup(rec) ==
    IF rec.table \in DOMAIN cache
    THEN after_schema(rec, cache[rec.table])
    ELSE [rec EXCEPT !.pc = "fetch"]

cache_insert(c, t, schema) == [x \in DOMAIN c \cup {t} |-> IF x = t THEN schema ELSE c[x]]

\* DashMap::insert and DashMap::remove take the write lock of the entry's
\* shard: they wait while a task holds a reference into the entry of t
cache_writable(t) == \A q \in DOMAIN proc : ~(proc[q].holds /\ proc[q].table = t)

\* Mutant: schema_cache.clear() in place of remove(table)
cache_remove_all(c, t) == [x \in {} |-> {}]

\* Mutant: the entry is kept, not removed
cache_remove_kept(c, t) == c

cache_remove(c, t) == [x \in DOMAIN c \ {t} |-> c[x]]

\* The task takes its call to `rec`; a call that has returned leaves the task
\* idle and is kept in `last`
Advance(p, rec) ==
    /\ IF rec.pc = "done"
       THEN proc' = [proc EXCEPT ![p] = IdleTask] /\ last' = rec
       ELSE proc' = [proc EXCEPT ![p] = rec] /\ UNCHANGED last
    /\ UNCHANGED <<arg, val>>

\* A request is taken by the first free task (the tasks are interchangeable)
CanStart(p) ==
    /\ proc[p].pc = "idle"
    /\ \A q \in DOMAIN proc : q < p => proc[q].pc # "idle"
    /\ calls < MaxCalls

Started(p, rec) ==
    /\ Advance(p, rec)
    /\ calls' = calls + 1
    /\ UNCHANGED <<catalog, cache, settled>>

\* ensure_table up to its first await
ensure_table_call(t) ==
    IF ~validate_identifier(t)
    THEN returns(new_call("ensure_table", t, <<>>), "InvalidIdentifier")
    ELSE cache_lookup([new_call("ensure_table", t, <<>>) EXCEPT !.validated = TRUE])

\* A payload that is not a JSON object is written as the sequence that holds
\* the value itself, where an object has its entries
PayloadArray == << JArray >>

\* payload.as_object() is Some
payload_as_object(d) == \A i \in DOMAIN d : "key" \in DOMAIN d[i]

\* ensure_columns up to its first await
ensure_columns_call(t, d) ==
    IF ~payload_as_object(d)
    THEN returns(new_call("ensure_columns", t, d), "InvalidPayload")
    ELSE IF ~keys_valid(d)
    THEN returns(new_call("ensure_columns", t, d), "InvalidIdentifier")
    ELSE cache_lookup(new_call("ensure_columns", t, d))

ensure_table_start(p, t) ==
    /\ CanStart(p)
    /\ Started(p, ensure_table_call(t))

ensure_columns_start(p, t, d) ==
    /\ CanStart(p)
    /\ Started(p, ensure_columns_call(t, d))

get_table_stats_start(p, t) ==
    /\ CanStart(p)
    /\ Started(p, cache_lookup(new_call("get_table_stats", t, <<>>)))

\* get_table_schema, cache miss: the PRAGMA is answered
Fetch(p) ==
    /\ proc[p].pc = "fetch"
    /\ LET rec == [proc[p] EXCEPT !.sql = @ \cup {"PRAGMA"}]
           f == fetch_table_info(catalog, rec.table)
       IN Advance(p, IF ~f.ok THEN returns(rec, "Database")
                     ELSE IF f.columns = {} THEN after_schema(rec, {})
                     ELSE [rec EXCEPT !.pc = "insert", !.schema = f.columns])
    /\ UNCHANGED <<catalog, cache, calls, settled, ref, app_vars>>

\* get_table_schema, cache miss: the non-empty answer is written to the cache
Insert(p) ==
    /\ proc[p].pc = "insert"
    /\ cache_writable(proc[p].table)
    /\ cache' = cache_insert(cache, proc[p].table, proc[p].schema)
    /\ Advance(p, after_schema([proc[p] EXCEPT !.cw = @ \cup {"insert"}], proc[p].schema))
    /\ UNCHANGED <<catalog, calls, settled, ref, app_vars>>

\* ensure_table: CREATE TABLE IF NOT EXISTS is executed
Create(p) ==
    /\ proc[p].pc = "create"
    /\ LET t == proc[p].table
           r == create_table_if_not_exists(catalog[t])
           rec == [proc[p] EXCEPT !.sql = @ \cup {"CREATE"}, !.pre = catalog[t], !.post = r.cols]
       IN /\ catalog' = [catalog EXCEPT ![t] = r.cols]
          /\ Advance(p, IF r.ok THEN [rec EXCEPT !.pc = "remove"] ELSE returns(rec, "Database"))
    /\ UNCHANGED <<cache, calls, settled, ref, app_vars>>

\* Mutant: a failed batch rewrites the cache entry with the table's columns
cache_after_batch_rewritten(c, t, r, migrations) == IF r.ok THEN c ELSE cache_insert(c, t, r.cols)

\* Mutant: the cache entry is updated in place with the columns of the batch,
\* whether the batch succeeded or was rolled back
cache_after_batch_in_place(c, t, r, migrations) ==
    IF t \in DOMAIN c
    THEN cache_insert(c, t, c[t] \cup { ColumnInfo(migrations[i].col_name, migrations[i].col_type, FALSE, FALSE) :
                                           i \in DOMAIN migrations })
    ELSE c

\* The cache when with_transaction(...).await has answered r: an error leaves
\* add_columns at the `?` and a success has yet to reach schema_cache.remove,
\* so the cache is as it was
cache_after_batch(c, t, r, migrations) == c

\* add_columns: the ALTER batch runs in one transaction
Alter(p) ==
    /\ proc[p].pc = "alter"
    /\ LET t == proc[p].table
           r == with_transaction(catalog[t], migrations_of(proc[p].newcols))
           rec == [proc[p] EXCEPT !.sql = @ \cup {"ALTER"}, !.pre = catalog[t], !.post = r.cols]
       IN /\ catalog' = [catalog EXCEPT ![t] = r.cols]
          /\ cache' = cache_after_batch(cache, t, r, migrations_of(proc[p].newcols))
          /\ Advance(p, IF r.ok THEN [rec EXCEPT !.pc = "remove"] ELSE returns(rec, "Database"))
    /\ UNCHANGED <<calls, settled, ref, app_vars>>

\* after a successful DDL: schema_cache.remove(table), then the call returns Ok
Remove(p) ==
    /\ proc[p].pc = "remove"
    /\ cache_writable(proc[p].table)
    /\ LET t == proc[p].table
           rec == returns([proc[p] EXCEPT !.cw = @ \cup {"remove"}], "Ok")
       IN /\ cache' = cache_remove(cache, t)
          /\ IF proc[p].op = "ensure_columns"
             THEN /\ Advance(p, [rec EXCEPT !.out = insert_columns(rec.doc)])
                  /\ settled' = [settled EXCEPT ![t] = @ \cup { rec.newcols[i].key : i \in DOMAIN rec.newcols }]
             ELSE /\ Advance(p, rec)
                  /\ UNCHANGED settled
    /\ UNCHANGED <<catalog, calls, ref, app_vars>>

\* get_table_stats: SELECT COUNT(*) is answered
Count(p) ==
    /\ proc[p].pc = "count"
    /\ LET rec == [proc[p] EXCEPT !.sql = @ \cup {"COUNT"}]
       IN Advance(p, IF catalog[rec.table] = {} THEN returns(rec, "Database")
                     ELSE [returns(rec, "Ok") EXCEPT !.count = Cardinality(rec.schema)])
    /\ UNCHANGED <<catalog, cache, calls, settled, ref, app_vars>>

Step(p) == Fetch(p) \/ Insert(p) \/ Create(p) \/ Alter(p) \/ Remove(p) \/ Count(p)

\* The steps an ensure_columns call can take
StepColumns(p) == Fetch(p) \/ Insert(p) \/ Alter(p) \/ Remove(p)

----------------------------------------------------------------------------
(* Spec: request tasks calling the guard concurrently; the catalog is      *)
(* changed by the guard only.  The store is opened on a database file that *)
(* is new or already holds table t with its base columns; the cache of a   *)
(* new SchemaGuard is empty.                                               *)

Init ==
    /\ \E cols \in {{}, BaseColumns} : catalog = [t \in Tables |-> IF t = T_t THEN cols ELSE {}]
    /\ cache = [t \in {} |-> {}]
    /\ proc = [p \in Tasks |-> IdleTask]
    /\ calls = 0
    /\ last = IdleTask
    /\ settled = [t \in Tables |-> {}]
    /\ ref = NoRef
    /\ arg = NoArg /\ val = NoArg
    /\ NoRequests

Next ==
    \/ \E p \in Tasks, t \in Tables : ensure_table_start(p, t) /\ UNCHANGED <<ref, app_vars>>
    \/ \E p \in Tasks, in \in ColumnInputs : ensure_columns_start(p, in[1], in[2]) /\ UNCHANGED <<ref, app_vars>>
    \/ \E p \in Tasks, t \in Tables : get_table_stats_start(p, t) /\ UNCHANGED <<ref, app_vars>>
    \/ \E p \in Tasks : Step(p)

Spec == Init /\ [][Next]_vars

\* SpecFair: concurrent calls of the three operations on table t.  The tokio
\* scheduler runs a task that can take a step, and the engine answers every
\* call: as long as some call can take a step, a step is taken.
NextFair ==
    \/ \E p \in Tasks : ensure_table_start(p, T_t) /\ UNCHANGED <<ref, app_vars>>
    \/ \E p \in Tasks : ensure_columns_start(p, T_t, DocXY) /\ UNCHANGED <<ref, app_vars>>
    \/ \E p \in Tasks : get_table_stats_start(p, T_t) /\ UNCHANGED <<ref, app_vars>>
    \/ \E p \in Tasks : Step(p)

SpecFair == Init /\ [][NextFair]_vars /\ WF_vars(\E p \in Tasks : Step(p))

----------------------------------------------------------------------------
(* SpecRace: ensure_table has just created t; every task then calls        *)
(* ensure_columns(t, {"x": 1}) once, in any interleaving.                  *)

RaceTasks == 1..(NumTasks + 1)
RaceCalls == Cardinality(RaceTasks)

InitRace ==
    /\ catalog = [t \in Tables |-> IF t = T_t THEN BaseColumns ELSE {}]
    /\ cache = [t \in {} |-> {}]
    /\ proc = [p \in RaceTasks |-> IdleTask]
    /\ calls = 0
    /\ last = IdleTask
    /\ settled = [t \in Tables |-> {}]
    /\ ref = NoRef
    /\ arg = NoArg /\ val = NoArg
    /\ NoRequests

NextRace ==
    \/ \E p \in RaceTasks : calls < RaceCalls /\ ensure_columns_start(p, T_t, DocX) /\ UNCHANGED <<ref, app_vars>>
    \/ \E p \in RaceTasks : StepColumns(p)

SpecRace == InitRace /\ [][NextRace]_vars

RaceOver == calls = RaceCalls /\ \A p \in RaceTasks : proc[p].pc = "idle"

----------------------------------------------------------------------------
(* SpecSeq: one caller makes guard calls one after the other; between two  *)
(* calls a client of POST /v1/sql/execute may change the catalog.  `ref`   *)
(* is the answer of a guard that has no cache to the same call.            *)

\* The statements a client sends to the raw SQL endpoint
ExternalStatements ==
    { [kind |-> "DROP TABLE", table |-> T_t, col |-> <<>>, ty |-> "-"],
      [kind |-> "ALTER TABLE ADD COLUMN", table |-> T_t, col |-> N_y, ty |-> "TEXT"] }

\* store.execute_simple(payload.query): the table's columns afterwards
execute_simple(cols, st) ==
    IF st.kind = "DROP TABLE" THEN {}
    ELSE alter_add_column(cols, st.col, st.ty).cols

sql_execute_handler(st) ==
    /\ \A p \in Tasks : proc[p].pc = "idle"
    /\ execute_simple(catalog[st.table], st) # catalog[st.table]
    /\ catalog' = [catalog EXCEPT ![st.table] = execute_simple(@, st)]
    /\ ref' = NoRef
    /\ UNCHANGED <<cache, proc, calls, last, settled, arg, val, app_vars>>

\* The guard with get_table_schema replaced by fetch_table_info: the call's
\* result and the table's columns after it
nocache_call(cat, op, t, d) ==
    LET answer(res, cols, schema, out) == [res |-> res, cols |-> cols, schema |-> schema, out |-> out]
        rec0 == [IdleTask EXCEPT !.op = op, !.table = t, !.doc = d]
        f == fetch_table_info(cat, t)
        r == after_schema(rec0, f.columns)
        w == with_transaction(cat[t], migrations_of(r.newcols))
    IN IF op = "ensure_table" /\ ~validate_identifier(t) THEN answer("InvalidIdentifier", cat[t], {}, <<>>)
       ELSE IF op = "ensure_columns" /\ ~keys_valid(d) THEN answer("InvalidIdentifier", cat[t], {}, <<>>)
       ELSE IF ~f.ok THEN answer("Database", cat[t], {}, <<>>)
       ELSE CASE r.pc = "done"   -> answer(r.res, cat[t], f.columns, r.out)
              [] r.pc = "create" -> answer("Ok", create_table_if_not_exists(cat[t]).cols, f.columns, <<>>)
              [] r.pc = "alter"  -> IF w.ok THEN answer("Ok", w.cols, f.columns, insert_columns(d))
                                    ELSE answer("Database", cat[t], f.columns, <<>>)
              [] OTHER           -> answer("Ok", cat[t], f.columns, <<>>)

\* The one caller: the first task
\* {"created_at": "...", "id": 7, "x": 1, "y": null}: system keys, a new key and a null
DocSys ==
    << Entry(N_created_at, JString), Entry(N_id, JPosInt), Entry(N_x, JPosInt), Entry(N_y, JNull) >>

\* The (table, document) pairs the one caller passes to ensure_columns
SeqInputs == ColumnInputs \cup {<<T_t, DocSys>>}

SeqTask == CHOOSE p \in Tasks : \A q \in Tasks : p <= q

NextSeq ==
    \/ \E t \in Tables :
         ensure_table_start(SeqTask, t) /\ ref' = nocache_call(catalog, "ensure_table", t, <<>>) /\ UNCHANGED app_vars
    \/ \E in \in SeqInputs :
         ensure_columns_start(SeqTask, in[1], in[2]) /\ ref' = nocache_call(catalog, "ensure_columns", in[1], in[2]) /\ UNCHANGED app_vars
    \/ \E t \in Tables :
         get_table_stats_start(SeqTask, t) /\ ref' = nocache_call(catalog, "get_table_stats", t, <<>>) /\ UNCHANGED app_vars
    \/ Step(SeqTask)
    \/ \E st \in ExternalStatements : sql_execute_handler(st)

SpecSeq == Init /\ [][NextSeq]_vars

----------------------------------------------------------------------------
(* SpecLimit: a table that already holds close to MAX_COLUMNS_PER_TABLE    *)
(* columns (or one more, which racing calls or the raw SQL endpoint can     *)
(* produce) receives, one call after the other, documents with zero to     *)
(* three new keys.                                                         *)

LimitSlack == 3

N_z == <<"z">>
DocXYZ == << Entry(N_x, JPosInt), Entry(N_y, JString), Entry(N_z, JBool) >>

LimitDocs == {DocNull, DocX, DocXY, DocXYZ}

\* c000, c001, ...: the columns earlier documents added
FillerName(i) ==
    << "c", DigitSeq[((i \div 100) % 10) + 1], DigitSeq[((i \div 10) % 10) + 1], DigitSeq[(i % 10) + 1] >>

FillerColumns(n) == { ColumnInfo(FillerName(i), "TEXT", FALSE, FALSE) : i \in 1..n }

InitLimit ==
    /\ \E n \in (MAX_COLUMNS_PER_TABLE - LimitSlack)..(MAX_COLUMNS_PER_TABLE + 1) :
         catalog = [t \in Tables |-> IF t = T_t
                                     THEN BaseColumns \cup FillerColumns(n - Cardinality(BaseColumns))
                                     ELSE {}]
    /\ cache = [t \in {} |-> {}]
    /\ proc = [p \in Tasks |-> IdleTask]
    /\ calls = 0
    /\ last = IdleTask
    /\ settled = [t \in Tables |-> {}]
    /\ ref = NoRef
    /\ arg = NoArg /\ val = NoArg
    /\ NoRequests

NextLimit ==
    \/ \E d \in LimitDocs : ensure_columns_start(SeqTask, T_t, d) /\ UNCHANGED <<ref, app_vars>>
    \/ StepColumns(SeqTask)

SpecLimit == InitLimit /\ [][NextLimit]_vars

----------------------------------------------------------------------------
(* SpecLimitRace: the request tasks call ensure_table and ensure_columns    *)
(* concurrently on a table that holds up to MAX_COLUMNS_PER_TABLE columns.  *)

InitLimitRace ==
    /\ \E n \in (MAX_COLUMNS_PER_TABLE - LimitSlack)..MAX_COLUMNS_PER_TABLE :
         catalog = [t \in Tables |-> IF t = T_t
                                     THEN BaseColumns \cup FillerColumns(n - Cardinality(BaseColumns))
                                     ELSE {}]
    /\ cache = [t \in {} |-> {}]
    /\ proc = [p \in Tasks |-> IdleTask]
    /\ calls = 0
    /\ last = IdleTask
    /\ settled = [t \in Tables |-> {}]
    /\ ref = NoRef
    /\ arg = NoArg /\ val = NoArg
    /\ NoRequests

NextLimitRace ==
    \/ \E p \in Tasks : ensure_table_start(p, T_t) /\ UNCHANGED <<ref, app_vars>>
    \/ \E p \in Tasks, d \in {DocX, DocY} : ensure_columns_start(p, T_t, d) /\ UNCHANGED <<ref, app_vars>>
    \/ \E p \in Tasks : StepColumns(p)

SpecLimitRace == InitLimitRace /\ [][NextLimitRace]_vars

----------------------------------------------------------------------------
(* SpecTables: the request tasks call the guard concurrently on two         *)
(* collections, t and u.                                                   *)

T_u == <<"u">>

TwoTables == {T_t, T_u}

InitTables ==
    /\ \E cols \in {{}, BaseColumns} : catalog = [t \in TwoTables |-> IF t = T_t THEN cols ELSE BaseColumns]
    /\ cache = [t \in {} |-> {}]
    /\ proc = [p \in Tasks |-> IdleTask]
    /\ calls = 0
    /\ last = IdleTask
    /\ settled = [t \in TwoTables |-> {}]
    /\ ref = NoRef
    /\ arg = NoArg /\ val = NoArg
    /\ NoRequests

NextTables ==
    \/ \E p \in Tasks, t \in TwoTables : ensure_table_start(p, t) /\ UNCHANGED <<ref, app_vars>>
    \/ \E p \in Tasks, t \in TwoTables : ensure_columns_start(p, t, DocXY) /\ UNCHANGED <<ref, app_vars>>
    \/ \E p \in Tasks, t \in TwoTables : get_table_stats_start(p, t) /\ UNCHANGED <<ref, app_vars>>
    \/ \E p \in Tasks : Step(p)

SpecTables == InitTables /\ [][NextTables]_vars

----------------------------------------------------------------------------
(* SpecPush: every task serves one POST /v1/push/:collection.  The handler  *)
(* calls ensure_table, then ensure_columns, then runs the INSERT, then asks *)
(* the connection for last_insert_rowid; each of the four is awaited.  What *)
(* a handler does between the return of one call and its next await is one  *)
(* step: while a guard call has returned to a handler that has not gone on, *)
(* no other task takes a step.                                             *)

\* The guard call of task p has returned to its handler
Returned(p) == handler[p].stage \in {"ensure_table", "ensure_columns"} /\ proc[p].pc = "idle"

NoneReturned == \A q \in Tasks : ~Returned(q)

answers(h, res) == [h EXCEPT !.stage = "done", !.res = res]

\* push_handler up to the await of ensure_table
PushRequest(p, c, d) ==
    /\ handler[p].stage = "idle" /\ NoneReturned
    /\ \A q \in Tasks : q < p => handler[q].stage # "idle"
    /\ Started(p, ensure_table_call(c))
    /\ handler' = [handler EXCEPT ![p] =
                      [NoHandler EXCEPT !.stage = "ensure_table", !.collection = c, !.payload = d,
                                        !.existed = (catalog[c] # {})]]
    /\ UNCHANGED <<rows, conn, ref, auth_vars, storage_vars>>

\* ensure_table(&collection).await? has returned: `?` answers the error, Ok
\* goes on to ensure_columns up to its first await
PushAfterTable(p) ==
    /\ handler[p].stage = "ensure_table" /\ Returned(p)
    /\ IF last.res = "Ok"
       THEN /\ Started(p, ensure_columns_call(handler[p].collection, handler[p].payload))
            /\ handler' = [handler EXCEPT ![p].stage = "ensure_columns"]
       ELSE /\ handler' = [handler EXCEPT ![p] = answers(@, last.res)]
            /\ UNCHANGED <<guard_vars, arg, val>>
    /\ UNCHANGED <<rows, conn, ref, auth_vars, storage_vars>>

\* ensure_columns(&collection, &payload).await? has returned: the INSERT is
\* built from the returned columns and sent to the connection
PushAfterColumns(p) ==
    /\ handler[p].stage = "ensure_columns" /\ Returned(p)
    /\ handler' = [handler EXCEPT ![p] =
                      IF last.res = "Ok" THEN [@ EXCEPT !.stage = "insert", !.columns = last.out]
                      ELSE answers(@, last.res)]
    /\ UNCHANGED <<guard_vars, arg, val, rows, conn, auth_vars, storage_vars>>

\* store.execute(INSERT INTO collection (columns) VALUES (...)) is answered
PushInsert(p) ==
    /\ handler[p].stage = "insert" /\ NoneReturned
    /\ LET c == handler[p].collection
           cols == handler[p].columns
       IN IF catalog[c] # {} /\ \A i \in DOMAIN cols : cols[i] \in Names(catalog[c])
          THEN /\ rows' = [rows EXCEPT ![c] = Append(@, p)]
               /\ conn' = [conn EXCEPT !.last_insert_rowid = Len(rows[c]) + 1]
               /\ handler' = [handler EXCEPT ![p].stage = "rowid", ![p].inserted = Len(rows[c]) + 1]
          ELSE /\ handler' = [handler EXCEPT ![p] = answers(@, "Database")]
               /\ UNCHANGED <<rows, conn>>
    /\ UNCHANGED <<guard_vars, arg, val, auth_vars, storage_vars>>

\* store.last_insert_rowid() is answered, and the handler answers 201 with the id
PushRowid(p) ==
    /\ handler[p].stage = "rowid" /\ NoneReturned
    /\ handler' = [handler EXCEPT ![p] = [answers(@, "Ok") EXCEPT !.id = conn.last_insert_rowid]]
    /\ UNCHANGED <<guard_vars, arg, val, rows, conn, auth_vars, storage_vars>>

\* The steps of the guard calls a push makes
PushGuardStep(p) ==
    NoneReturned /\ (Fetch(p) \/ Insert(p) \/ Create(p) \/ Alter(p) \/ Remove(p))

\* {"x": 1}, {"x": 1, "x-1": 1} and the array [..]
PushPayloads == {DocX, DocBadKey, PayloadArray}

NextPush ==
    \/ \E p \in Tasks, d \in PushPayloads : PushRequest(p, T_t, d)
    \/ \E p \in Tasks : PushAfterTable(p)
    \/ \E p \in Tasks : PushAfterColumns(p)
    \/ \E p \in Tasks : PushInsert(p)
    \/ \E p \in Tasks : PushRowid(p)
    \/ \E p \in Tasks : PushGuardStep(p)

SpecPush == Init /\ [][NextPush]_vars

----------------------------------------------------------------------------
(* SpecAuth: one user has signed up, which stored the first session; the   *)
(* tasks call AuthService::refresh with the refresh tokens issued so far   *)
(* (or with a token nobody issued) while the clock advances.  Every await  *)
(* of refresh is a step.  A refresh token is 32 random bytes: the k-th     *)
(* token generated is the number k, different from every other.            *)

\* The id of the user who signed up: vibe_users holds this one row
Users == {1}

\* A token that generate_refresh_token never returned
UnknownToken == 0

\* The row create_session stores for a user at the current time, and what
\* the history keeps with it: the token whose refresh made it (0: signup)
\* and the clock when that refresh was called
new_session(user_id, k) ==
    [ refresh_token |-> k, user_id |-> user_id, expires_at |-> now + DEFAULT_REFRESH_TOKEN_DURATION ]

issue(s, parent, started) ==
    [ refresh_token |-> s.refresh_token, user_id |-> s.user_id, expires_at |-> s.expires_at,
      parent |-> parent, started |-> started ]

\* SELECT user_id, expires_at FROM vibe_sessions WHERE refresh_token = ?
sessions_with(tok) == {s \in sessions : s.refresh_token = tok}

\* service.signup(..) has returned its tokens
InitAuth ==
    /\ catalog = [t \in Tables |-> {}]
    /\ cache = [t \in {} |-> {}]
    /\ proc = [p \in Tasks |-> IdleTask]
    /\ calls = 0
    /\ last = IdleTask
    /\ settled = [t \in Tables |-> {}]
    /\ ref = NoRef
    /\ arg = NoArg /\ val = NoArg
    /\ NoPushes /\ NoBuckets
    /\ now = 0
    /\ sessions = {[refresh_token |-> 1, user_id |-> 1, expires_at |-> DEFAULT_REFRESH_TOKEN_DURATION]}
    /\ issued = << [refresh_token |-> 1, user_id |-> 1, expires_at |-> DEFAULT_REFRESH_TOKEN_DURATION,
                     parent |-> UnknownToken, started |-> 0] >>
    /\ auth = [p \in Tasks |-> NoRefresh]

\* The clock advances by d days
Tick(d) ==
    /\ now + d <= MaxNow
    /\ now' = now + d
    /\ UNCHANGED <<sessions, issued, auth>>

\* refresh up to the answer of its SELECT: no row is Unauthorized, a row goes
\* on to the DELETE.  expires_at is selected and not read.
refresh(p, tok) ==
    /\ auth[p].stage \in {"idle", "done"}
    /\ Len(issued) < MaxSessions
    /\ auth' = [auth EXCEPT ![p] =
                   IF sessions_with(tok) = {}
                   THEN [NoRefresh EXCEPT !.stage = "done", !.refresh_token = tok, !.started = now,
                                          !.res = "Unauthorized"]
                   ELSE [NoRefresh EXCEPT !.stage = "delete", !.refresh_token = tok, !.started = now,
                                          !.user_id = (CHOOSE s \in sessions_with(tok) : TRUE).user_id]]
    /\ UNCHANGED <<sessions, issued, now>>

\* DELETE FROM vibe_sessions WHERE refresh_token = ? is answered: the number
\* of rows it deleted is dropped
refresh_delete(p) ==
    /\ auth[p].stage = "delete"
    /\ sessions' = sessions \ sessions_with(auth[p].refresh_token)
    /\ auth' = [auth EXCEPT ![p].stage = "get_user"]
    /\ UNCHANGED <<issued, now>>

\* get_user_by_id(user_id) is answered
get_user_by_id(p) ==
    /\ auth[p].stage = "get_user"
    /\ auth' = [auth EXCEPT ![p] =
                   IF @.user_id \in Users THEN [@ EXCEPT !.stage = "create_session"]
                   ELSE [@ EXCEPT !.stage = "done", !.res = "NotFound"]]
    /\ UNCHANGED <<sessions, issued, now>>

\* create_session: a new refresh token is generated, the INSERT INTO
\* vibe_sessions is answered and the tokens are returned
create_session(p) ==
    /\ auth[p].stage = "create_session"
    /\ LET s == new_session(auth[p].user_id, Len(issued) + 1)
       IN /\ sessions' = sessions \cup {s}
          /\ issued' = Append(issued, issue(s, auth[p].refresh_token, auth[p].started))
          /\ auth' = [auth EXCEPT ![p].stage = "done", ![p].res = "Ok", ![p].tokens = s.refresh_token]
    /\ UNCHANGED now

auth_unchanged == UNCHANGED <<guard_vars, arg, val, handler, rows, conn, storage_vars>>

NextAuth ==
    \/ \E d \in {1, DEFAULT_REFRESH_TOKEN_DURATION} : Tick(d) /\ auth_unchanged
    \/ \E p \in Tasks, tok \in 0..MaxSessions : tok <= Len(issued) /\ refresh(p, tok) /\ auth_unchanged
    \/ \E p \in Tasks : refresh_delete(p) /\ auth_unchanged
    \/ \E p \in Tasks : get_user_by_id(p) /\ auth_unchanged
    \/ \E p \in Tasks : create_session(p) /\ auth_unchanged

SpecAuth == InitAuth /\ [][NextAuth]_vars

----------------------------------------------------------------------------
(* SpecStorage: the tasks call create_bucket, delete_bucket and            *)
(* upload_object of the StorageService.  Every await of a call is a step;  *)
(* names and paths are sequences of characters, file data is its length.   *)

B_b == <<"b">>
B_upper == <<"B">>
BucketNames == {B_b, B_upper}

P_a == <<"a">>
P_dotdot == <<".", ".", "a">>
ObjectPaths == {P_a, P_dotdot}

DataLens == {1, MAX_FILE_SIZE + 1}

validate_bucket_name(name) ==
    /\ Len(name) >= 1 /\ Len(name) <= 63
    /\ \A i \in DOMAIN name : name[i] \in LowerSet \cup DigitSet \cup {"-"}
    /\ name[1] \in LowerSet

validate_object_path(path) ==
    /\ Len(path) >= 1 /\ Len(path) <= 1024
    /\ ~\E i \in 1..(Len(path) - 1) : path[i] = "." /\ path[i + 1] = "."
    /\ path[1] # "/"

\* The row of vibe_objects for a path in a bucket, and the file it is kept in
object_row(b, path) == [bucket_name |-> b, path |-> path]

\* SELECT COUNT(*) FROM vibe_objects WHERE bucket_name = ?
objects_in(b) == {o \in objects : o.bucket_name = b}

storage_call(op, b, path, stage) ==
    [ op |-> op, stage |-> stage, bucket |-> b, path |-> path, res |-> "-" ]

storage_returns(c, res) == [c EXCEPT !.stage = "done", !.res = res]

CanCall(p) == storage[p].stage \in {"idle", "done"}

\* create_bucket up to the answer of its SELECT
create_bucket(p, name) ==
    /\ CanCall(p)
    /\ storage' = [storage EXCEPT ![p] =
          IF ~validate_bucket_name(name)
          THEN storage_returns(storage_call("create_bucket", name, <<>>, "-"), "InvalidPayload")
          ELSE IF name \in buckets
          THEN storage_returns(storage_call("create_bucket", name, <<>>, "-"), "Conflict")
          ELSE storage_call("create_bucket", name, <<>>, "insert")]
    /\ UNCHANGED <<buckets, objects, dirs, files, uploaded>>

\* INSERT INTO vibe_buckets is answered: name is UNIQUE
create_bucket_insert(p) ==
    /\ storage[p].op = "create_bucket" /\ storage[p].stage = "insert"
    /\ IF storage[p].bucket \in buckets
       THEN /\ storage' = [storage EXCEPT ![p] = storage_returns(@, "Database")]
            /\ UNCHANGED buckets
       ELSE /\ buckets' = buckets \cup {storage[p].bucket}
            /\ storage' = [storage EXCEPT ![p].stage = "get_bucket"]
    /\ UNCHANGED <<objects, dirs, files, uploaded>>

\* get_bucket(name) of create_bucket is answered
create_bucket_get(p) ==
    /\ storage[p].op = "create_bucket" /\ storage[p].stage = "get_bucket"
    /\ storage' = [storage EXCEPT ![p] =
          storage_returns(@, IF @.bucket \in buckets THEN "Ok" ELSE "NotFound")]
    /\ UNCHANGED <<buckets, objects, dirs, files, uploaded>>

\* delete_bucket up to the answer of get_bucket
delete_bucket(p, name) ==
    /\ CanCall(p)
    /\ storage' = [storage EXCEPT ![p] =
          IF name \in buckets THEN storage_call("delete_bucket", name, <<>>, "count")
          ELSE storage_returns(storage_call("delete_bucket", name, <<>>, "-"), "NotFound")]
    /\ UNCHANGED <<buckets, objects, dirs, files, uploaded>>

\* The COUNT(*) is answered: a count above 0 is Conflict; otherwise
\* bucket_path.exists() decides whether remove_dir_all is called
delete_bucket_count(p) ==
    /\ storage[p].op = "delete_bucket" /\ storage[p].stage = "count"
    /\ storage' = [storage EXCEPT ![p] =
          IF objects_in(@.bucket) # {} THEN storage_returns(@, "Conflict")
          ELSE IF @.bucket \in dirs THEN [@ EXCEPT !.stage = "remove_dir_all"]
          ELSE [@ EXCEPT !.stage = "delete"]]
    /\ UNCHANGED <<buckets, objects, dirs, files, uploaded>>

\* fs::remove_dir_all(bucket_path) is answered
delete_bucket_remove_dir_all(p) ==
    /\ storage[p].op = "delete_bucket" /\ storage[p].stage = "remove_dir_all"
    /\ IF storage[p].bucket \in dirs
       THEN /\ dirs' = dirs \ {storage[p].bucket}
            /\ files' = {f \in files : f.bucket_name # storage[p].bucket}
            /\ storage' = [storage EXCEPT ![p].stage = "delete"]
       ELSE /\ storage' = [storage EXCEPT ![p] = storage_returns(@, "Storage")]
            /\ UNCHANGED <<dirs, files>>
    /\ UNCHANGED <<buckets, objects, uploaded>>

\* DELETE FROM vibe_buckets WHERE name = ? is answered: the rows of
\* vibe_objects that reference the bucket go with it (ON DELETE CASCADE,
\* foreign_keys=ON)
delete_bucket_delete(p) ==
    /\ storage[p].op = "delete_bucket" /\ storage[p].stage = "delete"
    /\ buckets' = buckets \ {storage[p].bucket}
    /\ objects' = objects \ objects_in(storage[p].bucket)
    /\ storage' = [storage EXCEPT ![p] = storage_returns(@, "Ok")]
    /\ UNCHANGED <<dirs, files, uploaded>>

\* upload_object up to the answer of get_bucket, the validation of the path
\* and of the size, and ensure_storage_dir
upload_object(p, bucket, path, len) ==
    /\ CanCall(p)
    /\ storage' = [storage EXCEPT ![p] =
          IF bucket \notin buckets
          THEN storage_returns(storage_call("upload_object", bucket, path, "-"), "NotFound")
          ELSE IF ~validate_object_path(path) \/ len > MAX_FILE_SIZE
          THEN storage_returns(storage_call("upload_object", bucket, path, "-"), "InvalidPayload")
          ELSE storage_call("upload_object", bucket, path, "create_dir_all")]
    /\ UNCHANGED <<buckets, objects, dirs, files, uploaded>>

\* fs::create_dir_all(parent) is answered
upload_object_create_dir_all(p) ==
    /\ storage[p].op = "upload_object" /\ storage[p].stage = "create_dir_all"
    /\ dirs' = dirs \cup {storage[p].bucket}
    /\ storage' = [storage EXCEPT ![p].stage = "write"]
    /\ UNCHANGED <<buckets, objects, files, uploaded>>

\* fs::File::create(&file_path) and write_all are answered
upload_object_write(p) ==
    /\ storage[p].op = "upload_object" /\ storage[p].stage = "write"
    /\ IF storage[p].bucket \in dirs
       THEN /\ files' = files \cup {object_row(storage[p].bucket, storage[p].path)}
            /\ storage' = [storage EXCEPT ![p].stage = "insert"]
       ELSE /\ storage' = [storage EXCEPT ![p] = storage_returns(@, "Storage")]
            /\ UNCHANGED files
    /\ UNCHANGED <<buckets, objects, dirs, uploaded>>

\* The INSERT INTO vibe_objects ... ON CONFLICT DO UPDATE is answered:
\* bucket_name references vibe_buckets(name)
upload_object_insert(p) ==
    /\ storage[p].op = "upload_object" /\ storage[p].stage = "insert"
    /\ IF storage[p].bucket \in buckets
       THEN /\ objects' = objects \cup {object_row(storage[p].bucket, storage[p].path)}
            /\ storage' = [storage EXCEPT ![p].stage = "get_object"]
       ELSE /\ storage' = [storage EXCEPT ![p] = storage_returns(@, "Database")]
            /\ UNCHANGED objects
    /\ UNCHANGED <<buckets, dirs, files, uploaded>>

\* get_object(bucket, path) is answered and upload_object returns it
upload_object_get(p) ==
    /\ storage[p].op = "upload_object" /\ storage[p].stage = "get_object"
    /\ LET o == object_row(storage[p].bucket, storage[p].path)
       IN IF o \in objects
          THEN /\ storage' = [storage EXCEPT ![p] = storage_returns(@, "Ok")]
               /\ uploaded' = uploaded \cup {o}
          ELSE /\ storage' = [storage EXCEPT ![p] = storage_returns(@, "NotFound")]
               /\ UNCHANGED uploaded
    /\ UNCHANGED <<buckets, objects, dirs, files>>

storage_unchanged == UNCHANGED <<guard_vars, arg, val, handler, rows, conn, auth_vars>>

NextStorage ==
    \/ \E p \in Tasks, name \in BucketNames : create_bucket(p, name) /\ storage_unchanged
    \/ \E p \in Tasks : create_bucket_insert(p) /\ storage_unchanged
    \/ \E p \in Tasks : create_bucket_get(p) /\ storage_unchanged
    \/ \E p \in Tasks, name \in BucketNames : delete_bucket(p, name) /\ storage_unchanged
    \/ \E p \in Tasks : delete_bucket_count(p) /\ storage_unchanged
    \/ \E p \in Tasks : delete_bucket_remove_dir_all(p) /\ storage_unchanged
    \/ \E p \in Tasks : delete_bucket_delete(p) /\ storage_unchanged
    \/ \E p \in Tasks, name \in BucketNames, path \in ObjectPaths, len \in DataLens :
           upload_object(p, name, path, len) /\ storage_unchanged
    \/ \E p \in Tasks : upload_object_create_dir_all(p) /\ storage_unchanged
    \/ \E p \in Tasks : upload_object_write(p) /\ storage_unchanged
    \/ \E p \in Tasks : upload_object_insert(p) /\ storage_unchanged
    \/ \E p \in Tasks : upload_object_get(p) /\ storage_unchanged

SpecStorage == Init /\ [][NextStorage]_vars

----------------------------------------------------------------------------
(* The specifications of pure functions: Init draws the input `arg` from a  *)
(* bounded set, an action applies the function and keeps its result in     *)
(* `val`.  No guard call is made.                                          *)

NoGuardCall ==
    /\ catalog = [t \in Tables |-> {}]
    /\ cache = [t \in {} |-> {}]
    /\ proc = [p \in Tasks |-> IdleTask]
    /\ calls = 0
    /\ last = IdleTask
    /\ settled = [t \in Tables |-> {}]
    /\ ref = NoRef
    /\ NoRequests

----------------------------------------------------------------------------
(* SpecIdent: validate_identifier and sanitize_identifier on every string  *)
(* of up to MaxNameLen characters over a small alphabet, on the names of   *)
(* the unit tests, and on names around the length limit.  A sanitized name *)
(* can be validated or sanitized again.                                    *)

MaxNameLen == 2

IdentAlphabet == {"a", "Z", "_", "1", "-", C_eacute}

ShortNames == UNION { [1..n -> IdentAlphabet] : n \in 0..MaxNameLen }

Pad(c, n) == [i \in 1..n |-> c]

S_select == <<"s","e","l","e","c","t">>
S_SELECT == <<"S","E","L","E","C","T">>
S_Select == <<"S","e","l","e","c","t">>
S_1abc   == <<"1","a","b","c">>
S_a_b    == <<"a","-","b">>
S_user_1 == <<"u","s","e","r","_","1">>
S_user_name == <<"u","s","e","r","-","n","a","m","e">>

LongNames ==
    { Pad("a", MAX_IDENTIFIER_LEN - 1), Pad("a", MAX_IDENTIFIER_LEN), Pad("a", MAX_IDENTIFIER_LEN + 1),
      Pad("a", MAX_IDENTIFIER_LEN - 1) \o <<C_eacute>>,
      Pad("a", MAX_IDENTIFIER_LEN - 1) \o <<"-", "1">>,
      Pad("1", MAX_IDENTIFIER_LEN + 1) }

IdentInputs ==
    ShortNames \cup LongNames
        \cup {S_select, S_SELECT, S_Select, S_1abc, S_a_b, S_user_1, S_user_name}

InitIdent ==
    /\ NoGuardCall
    /\ \E name \in IdentInputs : arg = [fn |-> "identifier", name |-> name]
    /\ val = NoArg

ValidateIdentifier ==
    /\ arg.fn = "identifier"
    /\ val' = [fn |-> "validate_identifier", in |-> arg.name, out |-> validate_identifier(arg.name)]
    /\ UNCHANGED <<arg, guard_vars, app_vars>>

SanitizeIdentifier ==
    /\ arg.fn = "identifier"
    /\ val' = [fn |-> "sanitize_identifier", in |-> arg.name, out |-> sanitize_identifier(arg.name)]
    /\ arg' = [arg EXCEPT !.name = sanitize_identifier(arg.name)]
    /\ UNCHANGED <<guard_vars, app_vars>>

NextIdent == ValidateIdentifier \/ SanitizeIdentifier

SpecIdent == InitIdent /\ [][NextIdent]_vars

----------------------------------------------------------------------------
(* SpecNumber: infer_type on JSON values, the numbers among them around    *)
(* the ends of the 64-bit ranges.  A 64-bit magnitude is written as its    *)
(* four 16-bit digits, most significant first.                             *)

LimbMax == 2^16 - 1

I64_MAX == << 2^15 - 1, LimbMax, LimbMax, LimbMax >>
I64_MIN_MAGNITUDE == << 2^15, 0, 0, 0 >>
U64_MAX == << LimbMax, LimbMax, LimbMax, LimbMax >>

\* a <= b for two magnitudes
MagLeq(a, b) ==
    a = b \/ \E i \in 1..4 : a[i] < b[i] /\ \A j \in 1..(i - 1) : a[j] = b[j]

Magnitudes ==
    { <<a, b, b, c>> : a \in {0, 2^15 - 1, 2^15, LimbMax}, b \in {0, LimbMax}, c \in {0, 1, LimbMax} }

\* serde_json::Number: PosInt(u64), NegInt(i64) for the integers below zero,
\* Float(f64) for a literal with a fraction or an exponent or outside both ranges
NumberPosInt(m) == [kind |-> "Number", num |-> "PosInt", mag |-> m, frac |-> FALSE]
NumberNegInt(m) == [kind |-> "Number", num |-> "NegInt", mag |-> m, frac |-> FALSE]
NumberFloat(m, fr) == [kind |-> "Number", num |-> "Float", mag |-> m, frac |-> fr]

NumberValues ==
    { NumberPosInt(m) : m \in Magnitudes }
        \cup { NumberNegInt(m) : m \in { x \in Magnitudes : MagLeq(x, I64_MIN_MAGNITUDE) /\ x # <<0, 0, 0, 0>> } }
        \cup { NumberFloat(m, fr) : m \in { <<0, 0, 0, 0>>, <<0, 0, 0, 1>>, U64_MAX }, fr \in BOOLEAN }

JsonValues == {JNull, JBool, JString, JArray, JObject} \cup NumberValues

InitNumber ==
    /\ NoGuardCall
    /\ \E v \in JsonValues : arg = [fn |-> "value", value |-> v]
    /\ val = NoArg

InferType ==
    /\ arg.fn = "value"
    /\ val' = [fn |-> "infer_type", in |-> arg.value, out |-> infer_type(arg.value)]
    /\ UNCHANGED <<arg, guard_vars, app_vars>>

\* SqliteType::as_sql of the inferred type, as add_columns writes it into the ALTER
TypeAsSql ==
    /\ val.fn = "infer_type"
    /\ val' = [fn |-> "as_sql", in |-> val.in, out |-> as_sql(val.out)]
    /\ UNCHANGED <<arg, guard_vars, app_vars>>

NextNumber == InferType \/ TypeAsSql

SpecNumber == InitNumber /\ [][NextNumber]_vars

----------------------------------------------------------------------------
(* SpecLattice: common_type and can_promote_to on every triple of types    *)

SqliteTypes == {"Integer", "Real", "Text", "Blob", "Null"}

InitLattice ==
    /\ NoGuardCall
    /\ \E a \in SqliteTypes, b \in SqliteTypes, c \in SqliteTypes :
         arg = [fn |-> "types", a |-> a, b |-> b, c |-> c]
    /\ val = NoArg

CommonType ==
    /\ arg.fn = "types"
    /\ val' = [fn |-> "common_type", a |-> arg.a, b |-> arg.b, c |-> arg.c,
               aa |-> common_type(arg.a, arg.a),
               ab |-> common_type(arg.a, arg.b),
               ba |-> common_type(arg.b, arg.a),
               ab_c |-> common_type(common_type(arg.a, arg.b), arg.c),
               a_bc |-> common_type(arg.a, common_type(arg.b, arg.c))]
    /\ UNCHANGED <<arg, guard_vars, app_vars>>

CanPromoteTo ==
    /\ arg.fn = "types"
    /\ val' = [fn |-> "can_promote_to", a |-> arg.a, b |-> arg.b, c |-> arg.c,
               out |-> can_promote_to(arg.a, arg.b)]
    /\ UNCHANGED <<arg, guard_vars, app_vars>>

NextLattice == CommonType \/ CanPromoteTo

SpecLattice == InitLattice /\ [][NextLattice]_vars

----------------------------------------------------------------------------
(* SpecBatch: infer_schema and infer_batch_schema on every batch of up to  *)
(* MaxBatch values drawn from a few documents with the keys a and b.       *)

N_a == <<"a">>
N_b == <<"b">>

\* A JSON object with its entries in the order the map iterates them
ObjectOf(entries) == [kind |-> "Object", num |-> "-", entries |-> entries]

as_object(value) == value.kind = "Object"

\* Mutant: the column is created as not nullable
InferredColumn_not_nullable(name, ty, nested) ==
    [name |-> name, sqlite_type |-> ty, is_nested |-> nested, is_nullable |-> FALSE]

\* InferredColumn::new(name, sqlite_type, is_nested)
InferredColumn(name, ty, nested) ==
    [name |-> name, sqlite_type |-> ty, is_nested |-> nested, is_nullable |-> TRUE]

\* Mutant: null values give columns too
is_schema_entry_with_null(e) == TRUE

\* .filter(|(_, v)| !v.is_null())
is_schema_entry(e) == ~is_null(e.val)

\* infer_schema of an object: its columns in the order of the entries
infer_schema(value) ==
    LET kept == SelectSeq(value.entries, is_schema_entry)
    IN [i \in DOMAIN kept |->
           InferredColumn(kept[i].key, infer_type(kept[i].val), kept[i].val.kind \in {"Object", "Array"})]

\* Mutant: a column seen again takes the type of the later document
merge_column_last_wins(unified, col) ==
    [n \in DOMAIN unified \cup {col.name} |-> IF n # col.name THEN unified[n] ELSE col]

\* unified_columns.entry(name).and_modify(...).or_insert(col): the map afterwards
merge_column(unified, col) ==
    [n \in DOMAIN unified \cup {col.name} |->
        IF n # col.name THEN unified[n]
        ELSE IF n \in DOMAIN unified
             THEN [unified[n] EXCEPT !.sqlite_type = common_type(@, col.sqlite_type),
                                     !.is_nested = @ \/ col.is_nested]
             ELSE col]

RECURSIVE merge_columns(_, _)
merge_columns(unified, columns) ==
    IF columns = <<>> THEN unified
    ELSE merge_columns(merge_column(unified, Head(columns)), Tail(columns))

\* The loop of infer_batch_schema: the first value that is not an object ends it with InvalidPayload
RECURSIVE fold_batch(_, _)
fold_batch(unified, values) ==
    IF values = <<>> THEN [res |-> "Ok", columns |-> { unified[n] : n \in DOMAIN unified }]
    ELSE IF ~as_object(Head(values)) THEN [res |-> "InvalidPayload", columns |-> {}]
    ELSE fold_batch(merge_columns(unified, infer_schema(Head(values))), Tail(values))

\* The result as the set of its columns: the vector is in the hash map's order
infer_batch_schema(values) == fold_batch([n \in {} |-> {}], values)

MaxBatch == 3

BatchA_int    == ObjectOf(<< Entry(N_a, JPosInt) >>)
BatchA_real   == ObjectOf(<< Entry(N_a, JFloat) >>)
BatchA_text   == ObjectOf(<< Entry(N_a, JString) >>)
BatchA_null   == ObjectOf(<< Entry(N_a, JNull) >>)
BatchA_nested == ObjectOf(<< Entry(N_a, JArray), Entry(N_b, JBool) >>)
BatchB_null   == ObjectOf(<< Entry(N_a, JNegInt), Entry(N_b, JNull) >>)
BatchA_object == ObjectOf(<< Entry(N_a, JObject), Entry(N_b, JString) >>)

BatchValues ==
    {BatchA_int, BatchA_real, BatchA_text, BatchA_null, BatchA_nested, BatchB_null, BatchA_object, JArray}

Batches == UNION { [1..n -> BatchValues] : n \in 0..MaxBatch }

InitBatch ==
    /\ NoGuardCall
    /\ \E values \in Batches : arg = [fn |-> "batch", values |-> values]
    /\ val = NoArg

InferBatchSchema ==
    /\ arg.fn = "batch"
    /\ val' = [fn |-> "infer_batch_schema", in |-> arg.values, out |-> infer_batch_schema(arg.values)]
    /\ UNCHANGED <<arg, guard_vars, app_vars>>

\* infer_schema of the first value of the batch
InferSchema ==
    /\ arg.fn = "batch" /\ arg.values # <<>>
    /\ val' = [fn |-> "infer_schema", in |-> arg.values,
               out |-> IF as_object(Head(arg.values))
                       THEN [res |-> "Ok", columns |-> Range(infer_schema(Head(arg.values))),
                             list |-> infer_schema(Head(arg.values))]
                       ELSE [res |-> "InvalidPayload", columns |-> {}, list |-> <<>>]]
    /\ UNCHANGED <<arg, guard_vars, app_vars>>

NextBatch == InferBatchSchema \/ InferSchema

SpecBatch == InitBatch /\ [][NextBatch]_vars

----------------------------------------------------------------------------
(* Properties *)

\* Every call in flight, and the call that returned last
CallRecords == { proc[p] : p \in DOMAIN proc } \cup {last}

KeysOf(doc) == { doc[i].key : i \in DOMAIN doc }
NullKeys(doc) == { doc[i].key : i \in { j \in DOMAIN doc : doc[j].val.kind = "Null" } }
AllNull(doc) == \A i \in DOMAIN doc : doc[i].val.kind = "Null"
HasInvalidKey(doc) == \E i \in DOMAIN doc : ~validate_identifier(doc[i].key)
BaseNames == {N_id, N_created_at, N_updated_at}
ColumnX == [name |-> N_x, col_type |-> "INTEGER", notnull |-> FALSE, pk |-> FALSE]

\* C1 (SpecRace): when every task calls ensure_columns(t, {"x": 1}) on the table
\* ensure_table has just created, every call returns Ok, and once all have
\* returned the table holds the base columns and exactly one more, x INTEGER.
C1_RaceAllOk ==
    /\ last.pc = "done" => last.res = "Ok"
    /\ RaceOver => catalog[T_t] = BaseColumns \cup {ColumnX}

\* C2 (Spec): a get_table_stats(t) that returns Ok lists every column that
\* ensure_columns calls which had returned Ok before it started had added to t.
C2_StatsSeeAddedColumns ==
    (last.op = "get_table_stats" /\ last.res = "Ok") => last.expect \subseteq Names(last.schema)

\* C3 (SpecSeq): every call of a sequence of guard calls, with the catalog changed
\* between calls through the raw SQL endpoint, returns what a guard without a
\* cache returns and leaves the table's catalog columns as that guard leaves them.
C3_CacheTransparent ==
    (ref # NoRef /\ proc[SeqTask].pc = "idle") =>
        /\ last.res = ref.res
        /\ catalog[last.table] = ref.cols
        /\ last.res = "Ok" => last.out = ref.out
        /\ (last.res = "Ok" /\ last.op = "get_table_stats") => last.schema = ref.schema

\* C4 (Spec): the ALTER batch of an ensure_columns call is all-or-nothing: the
\* table's catalog columns right after the batch are the columns right before
\* it plus one column per entry of new_columns (the batch succeeded and the call
\* goes on to return Ok), or exactly the columns before it (the call returns Err).
C4_BatchAllOrNothing ==
    \A r \in CallRecords :
        "ALTER" \in r.sql =>
            \/ /\ r.pc = "remove" \/ r.res = "Ok"
               /\ r.pre \subseteq r.post
               /\ Names(r.post \ r.pre) = KeysOf(r.newcols)
               /\ Cardinality(r.post \ r.pre) = Len(r.newcols)
            \/ /\ r.pc = "done" /\ r.res # "Ok"
               /\ r.post = r.pre

\* A batch whose first statement succeeded and whose second failed was undone,
\* and the call returned Err
C4_Witness ==
    /\ last.op = "ensure_columns" /\ "ALTER" \in last.sql /\ last.res = "Database"
    /\ Len(last.newcols) = 2
    /\ last.newcols[1].key \notin Names(last.pre)
    /\ last.newcols[2].key \in Names(last.pre)
    /\ last.post = last.pre

\* C5 (Spec): a call whose table name validate_identifier rejects issues no SQL
\* (the guard builds SQL text from a table name only after validating it).
C5_NoSqlForRejectedName ==
    \A r \in CallRecords : ~validate_identifier(r.table) => r.sql = {}

\* C6 (SpecLimit): a call of ensure_columns that has resolved the current schema
\* returns ColumnLimitExceeded, without issuing DDL, exactly when the number of
\* columns of that schema plus the number of document keys with a non-null value
\* that the schema lacks is greater than 1000.
C6_LimitExactly ==
    \A r \in CallRecords :
        (r.op = "ensure_columns" /\ r.resolved) =>
            LET missing == { i \in DOMAIN r.doc :
                               r.doc[i].val.kind # "Null" /\ r.doc[i].key \notin Names(r.schema) }
                total == Cardinality(r.schema) + Cardinality(missing)
            IN (total > 1000) <=>
                   (r.pc = "done" /\ r.res = "ColumnLimitExceeded" /\ "ALTER" \notin r.sql)

\* 998 columns and three new ones: rejected
C6_Witness ==
    /\ last.res = "ColumnLimitExceeded"
    /\ Cardinality(last.schema) = 998 /\ Len(last.newcols) = 3

\* C7 (Spec): an ensure_columns call whose document has a key that
\* validate_identifier rejects returns InvalidIdentifier at once: it issues no
\* SQL (no catalog fetch, no DDL) and writes nothing to the cache.
C7_InvalidKeyNoEffect ==
    \A r \in CallRecords :
        (r.op = "ensure_columns" /\ HasInvalidKey(r.doc)) =>
            /\ r.pc = "done" /\ r.res = "InvalidIdentifier"
            /\ r.sql = {} /\ r.cw = {}
            /\ ~r.resolved

\* The rejected document also had a valid key that the existing table lacks
C7_Witness ==
    /\ last.doc = DocBadKey /\ last.res = "InvalidIdentifier"
    /\ catalog[T_t] # {} /\ N_x \notin Names(catalog[T_t])

\* C8 (Spec): for a valid name, ensure_table returns Ok; its CREATE TABLE leaves
\* the columns of a table that already has some as they are (also when two calls
\* race to create it); and a call made on a table that already has columns
\* issues no DDL.
C8_EnsureTableIdempotent ==
    \A r \in CallRecords :
        (r.op = "ensure_table" /\ validate_identifier(r.table)) =>
            /\ r.pc = "done" => r.res = "Ok"
            /\ ("CREATE" \in r.sql /\ r.pre # {}) => r.post = r.pre
            /\ r.existed => r.sql \subseteq {"PRAGMA"}
            /\ (r.resolved /\ r.schema # {}) => "CREATE" \notin r.sql

\* The second of two racing calls ran CREATE TABLE on the table the first had
\* created, and returned Ok
C8_Witness ==
    /\ last.op = "ensure_table" /\ last.res = "Ok"
    /\ "CREATE" \in last.sql /\ last.pre # {}

\* C9 (SpecSeq): for a valid name without columns in the catalog when the call
\* starts, ensure_table returns Ok and the table then has the columns id,
\* created_at and updated_at; its CREATE TABLE leaves exactly these three; and
\* get_table_stats of a table with just these columns reports column_count 3.
C9_EnsureTableCreatesBase ==
    /\ \A r \in CallRecords :
         (r.op = "ensure_table" /\ validate_identifier(r.table) /\ ~r.existed) =>
             /\ r.pc = "done" => (r.res = "Ok" /\ BaseNames \subseteq Names(catalog[r.table]))
             /\ ("CREATE" \in r.sql /\ r.pre = {}) =>
                    (Names(r.post) = BaseNames /\ Cardinality(r.post) = 3)
    /\ (last.op = "get_table_stats" /\ last.res = "Ok" /\ Names(catalog[last.table]) = BaseNames)
           => last.count = 3

\* C10, as claimed (Spec): ensure_columns adds no column named after a
\* null-valued key, and a call whose document has only null values issues no
\* DDL and returns Ok with an empty list.
C10_Original ==
    \A r \in CallRecords :
        r.op = "ensure_columns" =>
            /\ "ALTER" \in r.sql => Names(r.post \ r.pre) \cap NullKeys(r.doc) = {}
            /\ (AllNull(r.doc) /\ r.pc = "done") =>
                   ("ALTER" \notin r.sql /\ r.res = "Ok" /\ r.out = <<>>)

\* C10, amended (Spec): ensure_columns adds no column named after a null-valued
\* key; a call whose document has only null values issues no DDL, an Ok result
\* of it is the empty list, and it returns Ok whenever its keys are valid, the
\* schema lookup succeeded and the schema has at most 1000 columns.
C10_NullAddsNoColumn ==
    \A r \in CallRecords :
        r.op = "ensure_columns" =>
            /\ "ALTER" \in r.sql => Names(r.post \ r.pre) \cap NullKeys(r.doc) = {}
            /\ KeysOf(r.newcols) \cap NullKeys(r.doc) = {}
            /\ AllNull(r.doc) =>
                   /\ "ALTER" \notin r.sql /\ r.pc \notin {"alter", "remove"}
                   /\ (r.pc = "done" /\ r.res = "Ok") => r.out = <<>>
                   /\ (r.pc = "done" /\ ~HasInvalidKey(r.doc) /\ r.resolved
                         /\ Cardinality(r.schema) <= 1000) => r.res = "Ok"

\* {"x": null} on an existing table without x: Ok, empty list, still no x
C10_Witness ==
    /\ last.doc = DocNull /\ last.res = "Ok" /\ last.out = <<>>
    /\ catalog[T_t] # {} /\ N_x \notin Names(catalog[T_t])

\* C11 (SpecSeq): when ensure_columns returns Ok, the returned list holds exactly
\* the keys of the document whose value is not null and that are none of id,
\* created_at and updated_at, each of them once.
C11_InsertColumnsExact ==
    \A r \in CallRecords :
        (r.op = "ensure_columns" /\ r.pc = "done" /\ r.res = "Ok") =>
            LET eligible == (KeysOf(r.doc) \ NullKeys(r.doc)) \ BaseNames
            IN /\ { r.out[i] : i \in DOMAIN r.out } = eligible
               /\ Len(r.out) = Cardinality(eligible)

\* The document with created_at, id, x and a null y on an existing table: only x
C11_Witness ==
    /\ last.op = "ensure_columns" /\ last.doc = DocSys /\ last.res = "Ok"
    /\ last.out = <<N_x>>

\* C12 (SpecSeq): a get_table_stats call on a table absent from the catalog, or
\* whose resolved schema is empty, returns TableNotFound without a row-count
\* query; a call that resolved a non-empty schema returns Ok with column_count
\* equal to the number of columns it returns.  (Looked at when the call has
\* just returned, before anything else changes the catalog.)
C12_StatsNotFoundOrOk ==
    (/\ ref # NoRef /\ proc[SeqTask].pc = "idle"
     /\ last.op = "get_table_stats" /\ sql_name_parses(last.table)) =>
        /\ (catalog[last.table] = {} \/ (last.resolved /\ last.schema = {})) =>
               (last.res = "TableNotFound" /\ "COUNT" \notin last.sql)
        /\ (last.resolved /\ last.schema # {}) =>
               (last.res = "Ok" /\ last.count = Cardinality(last.schema))

\* C13 (Spec): an ensure_columns call whose ALTER batch failed because the table
\* does not exist returns the MigrationFailed error kind.
C13_MigrationFailedKind ==
    \A r \in CallRecords :
        (r.op = "ensure_columns" /\ "ALTER" \in r.sql /\ r.pc = "done" /\ r.pre = {}) =>
            r.res = "MigrationFailed"

\* C14 (SpecIdent): validate_identifier returns Ok exactly for the names of 1 to
\* 128 characters that match ^[A-Za-z_][A-Za-z0-9_]*$ and whose upper-cased form
\* is not a reserved word; SELECT, select, 1abc, a-b and the empty string are
\* rejected and user_1 is accepted.
C14_ValidateExactly ==
    val.fn = "validate_identifier" =>
        /\ val.out <=>
               /\ Len(val.in) >= 1 /\ Len(val.in) <= 128
               /\ is_ascii_alphabetic(val.in[1]) \/ val.in[1] = "_"
               /\ \A i \in 2..Len(val.in) : is_ascii_alphanumeric(val.in[i]) \/ val.in[i] = "_"
               /\ [i \in DOMAIN val.in |-> to_uppercase_char(val.in[i])] \notin RESERVED_KEYWORDS
        /\ val.in \in {S_SELECT, S_select, S_Select, S_1abc, S_a_b, <<>>} => ~val.out
        /\ val.in = S_user_1 => val.out

\* select, in lower case, was rejected
C14_Witness ==
    val.fn = "validate_identifier" /\ val.in = S_select /\ ~val.out

\* C15 (SpecIdent): sanitize_identifier returns a name that validate_identifier
\* accepts, whatever the input.
C15_SanitizeGivesValid ==
    val.fn = "sanitize_identifier" => validate_identifier(val.out)

\* C16 (SpecIdent): sanitizing the result of sanitize_identifier again returns
\* it unchanged, and a string of at most 128 characters with a valid character
\* at every position is returned unchanged.
C16_SanitizeIdempotent ==
    val.fn = "sanitize_identifier" =>
        /\ sanitize_identifier(val.out) = val.out
        /\ (Len(val.in) <= 128 /\ (val.in = <<>> \/ IDENTIFIER_REGEX_is_match(val.in)))
               => val.out = val.in

\* A name of 129 characters was cut, and a name with a hyphen was rewritten
C16_Witness ==
    /\ val.fn = "sanitize_identifier" /\ val.out # val.in
    /\ Len(val.in) = 129 \/ val.in = S_user_name

\* C17 (SpecNumber): infer_type gives Null for null, Integer for a boolean, Text
\* for a string, an object or an array, Integer for a number without fractional
\* part inside the signed 64-bit range, and Real for every other number.
C17_InferTypeBy64BitRange ==
    val.fn = "infer_type" =>
        val.out =
            CASE val.in.kind = "Null" -> "Null"
              [] val.in.kind = "Bool" -> "Integer"
              [] val.in.kind \in {"String", "Array", "Object"} -> "Text"
              [] OTHER ->
                   IF /\ ~val.in.frac
                      /\ \/ val.in.num = "NegInt"
                         \/ val.in.num # "NegInt" /\ MagLeq(val.in.mag, I64_MAX)
                   THEN "Integer" ELSE "Real"

\* The order of the claim: Null <= everything, Integer <= Real, everything <= Text
TypeLeq(a, b) == a = b \/ a = "Null" \/ (a = "Integer" /\ b = "Real") \/ b = "Text"

\* C18 (SpecLattice): common_type(a, b) is the least upper bound of a and b in
\* the order Null <= everything, Integer <= Real, everything <= Text; it is
\* idempotent, commutative and associative, and it is Text for two types of which
\* neither is below the other.
C18_CommonTypeIsLub ==
    val.fn = "common_type" =>
        /\ val.aa = val.a
        /\ val.ab = val.ba
        /\ val.ab_c = val.a_bc
        /\ TypeLeq(val.a, val.ab) /\ TypeLeq(val.b, val.ab)
        /\ \A u \in SqliteTypes : (TypeLeq(val.a, u) /\ TypeLeq(val.b, u)) => TypeLeq(val.ab, u)
        /\ (~TypeLeq(val.a, val.b) /\ ~TypeLeq(val.b, val.a)) => val.ab = "Text"

\* Blob and Integer, of which neither is below the other, then Real
C18_Witness ==
    /\ val.fn = "common_type" /\ val.a = "Blob" /\ val.b = "Integer" /\ val.c = "Real"
    /\ val.ab = "Text" /\ val.ab_c = "Text"

AllObjects(values) == \A i \in DOMAIN values : values[i].kind = "Object"

\* The batch in the order p
Permuted(values, p) == [i \in DOMAIN values |-> values[p[i]]]

Triples(columns) == { <<c.name, c.sqlite_type, c.is_nested>> : c \in columns }

\* C19 (SpecBatch): for a batch of objects, infer_batch_schema gives the same set
\* of (column name, type, nested flag) triples for every order of the batch.
C19_BatchOrderIndependent ==
    (val.fn = "infer_batch_schema" /\ AllObjects(val.in)) =>
        \A p \in Permutations(DOMAIN val.in) :
            /\ infer_batch_schema(Permuted(val.in, p)).res = val.out.res
            /\ Triples(infer_batch_schema(Permuted(val.in, p)).columns) = Triples(val.out.columns)

\* {"a": "x"}, {"a": 1}, {"a": [..], "b": true}: three documents, six orders
C19_Witness ==
    /\ val.fn = "infer_batch_schema" /\ val.in = <<BatchA_text, BatchA_int, BatchA_nested>>
    /\ Triples(val.out.columns) = { <<N_a, "Text", TRUE>>, <<N_b, "Integer", FALSE>> }

\* The values of key `name` in the batch that are not null, in the order of the batch
NonNullValues(values, name) ==
    LET hits == { i \in DOMAIN values :
                    \E j \in DOMAIN values[i].entries :
                        values[i].entries[j].key = name /\ values[i].entries[j].val.kind # "Null" }
        ValueAt(i) == LET j == CHOOSE k \in DOMAIN values[i].entries : values[i].entries[k].key = name
                      IN values[i].entries[j].val
    IN [i \in hits |-> ValueAt(i)]

\* common_type folded over the types of the values f (a function from positions)
RECURSIVE FoldTypes(_)
FoldTypes(f) ==
    LET i == CHOOSE k \in DOMAIN f : \A m \in DOMAIN f : m <= k
        rest == [k \in DOMAIN f \ {i} |-> f[k]]
        ty == CASE f[i].kind = "Null" -> "Null"
                [] f[i].kind = "Bool" -> "Integer"
                [] f[i].kind = "Number" -> IF f[i].num = "Float" THEN "Real" ELSE "Integer"
                [] OTHER -> "Text"
    IN IF DOMAIN rest = {} THEN ty ELSE common_type(FoldTypes(rest), ty)

\* C20 (SpecBatch): for a batch of objects, infer_batch_schema has a column for
\* a key exactly when some document has a non-null value for it, one column per
\* key, and the column's type is common_type folded over the types of the key's
\* non-null values; 1 and 1.5 give Real, 1 and "x" give Text.
C20_BatchTypeIsFold ==
    (val.fn = "infer_batch_schema" /\ AllObjects(val.in)) =>
        /\ val.out.res = "Ok"
        /\ \A name \in {N_a, N_b} :
              LET vs == NonNullValues(val.in, name)
                  cols == { c \in val.out.columns : c.name = name }
              IN IF DOMAIN vs = {} THEN cols = {}
                 ELSE Cardinality(cols) = 1 /\ \A c \in cols : c.sqlite_type = FoldTypes(vs)
        /\ \A c \in val.out.columns : c.name \in {N_a, N_b}
        /\ val.in = <<BatchA_int, BatchA_real>> => Triples(val.out.columns) = { <<N_a, "Real", FALSE>> }
        /\ val.in = <<BatchA_int, BatchA_text>> => Triples(val.out.columns) = { <<N_a, "Text", FALSE>> }

\* {"a": null}, {"a": 1}, {"a": 1.5}: the null adds nothing, the column is Real
C20_Witness ==
    /\ val.fn = "infer_batch_schema" /\ val.in = <<BatchA_null, BatchA_int, BatchA_real>>
    /\ Triples(val.out.columns) = { <<N_a, "Real", FALSE>> }

\* C21 (SpecBatch): infer_schema of an object returns one column per key whose
\* value is not null and none for a null-valued key; every column is nullable,
\* and nested exactly when the key's value is an object or an array; of a value
\* that is not an object it returns InvalidPayload.
C21_InferSchemaExact ==
    val.fn = "infer_schema" =>
        LET doc == Head(val.in)
            list == val.out.list
        IN IF doc.kind # "Object" THEN val.out.res = "InvalidPayload"
           ELSE LET kept == { i \in DOMAIN doc.entries : doc.entries[i].val.kind # "Null" }
                    ValueOf(name) ==
                        doc.entries[CHOOSE i \in DOMAIN doc.entries : doc.entries[i].key = name].val
                IN /\ val.out.res = "Ok"
                   /\ Len(list) = Cardinality(kept)
                   /\ { list[i].name : i \in DOMAIN list } = { doc.entries[i].key : i \in kept }
                   /\ \A i \in DOMAIN list :
                         /\ list[i].is_nullable
                         /\ list[i].is_nested <=> ValueOf(list[i].name).kind \in {"Object", "Array"}

\* {"a": -1, "b": null}: one column, a, nullable and not nested
C21_Witness ==
    /\ val.fn = "infer_schema" /\ Head(val.in) = BatchB_null
    /\ val.out.res = "Ok" /\ Len(val.out.list) = 1
    /\ val.out.list[1].name = N_a /\ val.out.list[1].is_nullable /\ ~val.out.list[1].is_nested

\* C22 (SpecRace): an ensure_columns call whose ALTER batch was rejected because
\* a column of the batch already existed has removed the table's cache entry by
\* the time it returns.
C22_RemoveAfterDuplicate ==
    \A r \in CallRecords :
        (/\ r.op = "ensure_columns" /\ "ALTER" \in r.sql /\ r.pc = "done"
         /\ r.post = r.pre /\ KeysOf(r.newcols) \cap Names(r.pre) # {}) =>
            "remove" \in r.cw

\* C23 (SpecSeq): an ensure_columns call whose ALTER batch failed (the batch
\* left the table as it was) returns Err and wrote nothing into the cache after
\* the batch: when the call has returned, the cache entry of the table is absent
\* or is the schema the call resolved before the batch, and holds no column of
\* the failed batch.
C23_FailedBatchLeavesCache ==
    (/\ proc[SeqTask].pc = "idle" /\ last.op = "ensure_columns"
     /\ "ALTER" \in last.sql /\ last.post = last.pre) =>
        /\ last.res = "Database"
        /\ "remove" \notin last.cw
        /\ last.table \in DOMAIN cache =>
               /\ cache[last.table] = last.schema
               /\ Names(cache[last.table]) \cap KeysOf(last.newcols) = {}

\* The batch of x and y failed at y, which the table had already: x was rolled
\* back and the cache still holds the schema without x and y
C23_Witness ==
    /\ proc[SeqTask].pc = "idle" /\ last.op = "ensure_columns" /\ last.res = "Database"
    /\ KeysOf(last.newcols) = {N_x, N_y}
    /\ N_y \in Names(last.pre) /\ N_x \notin Names(catalog[T_t])
    /\ T_t \in DOMAIN cache /\ cache[T_t] = last.schema

\* The cache entry of t as a set: empty when there is none
CacheEntry(c, t) == IF t \in DOMAIN c THEN {c[t]} ELSE {}

\* C24 (Spec): a DDL step of the guard (CREATE TABLE, the ALTER batch) leaves
\* the cache as it is and, when the DDL succeeded, takes the call to the step
\* that removes the table's cache entry and returns Ok; a cache entry appears or
\* changes only in the step of get_table_schema that follows a catalog fetch on
\* a cache miss, and the entry written is exactly the columns that were fetched.
C24_InvalidateNotRewrite ==
    [][ /\ \A p \in DOMAIN proc :
             LET t == proc[p].table
             IN /\ (proc[p].pc \in {"create", "alter"} /\ proc'[p] # proc[p]) =>
                       /\ cache' = cache
                       /\ \/ proc'[p].pc = "remove"
                          \/ proc'[p].pc = "idle" /\ last'.res = "Database"
                /\ (proc[p].pc = "remove" /\ proc'[p] # proc[p]) =>
                       /\ t \notin DOMAIN cache'
                       /\ last'.res = "Ok" /\ last'.sql \cap {"CREATE", "ALTER"} # {}
                /\ (proc[p].pc = "fetch" /\ proc'[p].pc = "insert") =>
                       proc'[p].schema = catalog[t]
        /\ \A t \in DOMAIN cache' :
             CacheEntry(cache', t) # CacheEntry(cache, t) =>
                 \E p \in DOMAIN proc :
                     /\ proc[p].pc = "insert" /\ proc[p].table = t /\ proc'[p] # proc[p]
                     /\ "PRAGMA" \in proc[p].sql
                     /\ cache'[t] = proc[p].schema
      ]_vars

\* A call put the fetched schema into the cache, added columns and removed the
\* entry again
C24_Witness ==
    /\ last.op = "ensure_columns" /\ last.res = "Ok" /\ "ALTER" \in last.sql
    /\ last.cw = {"insert", "remove"} /\ last.post # last.pre
    /\ last.table \notin DOMAIN cache

\* C25 (Spec): no cache entry holds an empty column list; and a call that
\* issues CREATE TABLE from ensure_table, or returns TableNotFound from
\* get_table_stats, has fetched the catalog for the table in this same call,
\* got no columns, and wrote nothing into the cache.
C25_AbsentOnlyAfterEmptyFetch ==
    /\ \A t \in DOMAIN cache : cache[t] # {}
    /\ \A r \in CallRecords :
         (\/ r.pc = "create" \/ "CREATE" \in r.sql
          \/ r.op = "get_table_stats" /\ r.res = "TableNotFound") =>
             /\ "PRAGMA" \in r.sql
             /\ r.resolved /\ r.schema = {}
             /\ "insert" \notin r.cw

\* get_table_stats of a table that does not exist: fetched, found nothing,
\* TableNotFound, and no cache entry was made
C25_Witness ==
    /\ last.op = "get_table_stats" /\ last.table = T_t /\ last.res = "TableNotFound"
    /\ last.sql = {"PRAGMA"} /\ T_t \notin DOMAIN cache

\* C26 (SpecLimitRace): whatever the interleaving of concurrent ensure_table and
\* ensure_columns calls, no table of the catalog has more than 1000 columns.
C26_NeverOverLimit ==
    \A t \in DOMAIN catalog : Cardinality(catalog[t]) <= 1000

\* C27 (Spec): with the catalog changed by the guard only, every column of
\* every cache entry is a column of that table in the catalog.
C27_CacheWithinCatalog ==
    \A t \in DOMAIN cache : cache[t] \subseteq catalog[t] /\ Names(cache[t]) \subseteq Names(catalog[t])

\* The cache entry is behind the catalog: it lacks a column the table has
C27_Witness ==
    /\ T_t \in DOMAIN cache /\ cache[T_t] = BaseColumns
    /\ N_y \in Names(catalog[T_t])

\* C28 (Spec): no step of the guard removes a column from the catalog or
\* changes its declared type: every column of a table before the step is a
\* column of it after the step, and no column of that name with another type
\* exists after it.
C28_SchemaOnlyGrows ==
    [][ \A t \in DOMAIN catalog :
            \A c \in catalog[t] :
                /\ c \in catalog'[t]
                /\ \A d \in catalog'[t] : d.name = c.name => d.col_type = c.col_type
      ]_vars

\* {"y": 1.5} was accepted on a table whose column y is TEXT, and y is still TEXT
C28_Witness ==
    /\ last.op = "ensure_columns" /\ last.doc = DocY /\ last.res = "Ok"
    /\ ColumnInfo(N_y, "TEXT", FALSE, FALSE) \in last.schema
    /\ { c.col_type : c \in { d \in catalog[T_t] : d.name = N_y } } = {"TEXT"}

\* C29 (Spec): with the catalog changed by the guard only, every name in the
\* list an ensure_columns call returned with Ok is a column of the call's table
\* in the catalog, from the moment the call returns on, in every interleaving.
C29_ReturnedColumnsExist ==
    (last.op = "ensure_columns" /\ last.res = "Ok") =>
        \A i \in DOMAIN last.out : last.out[i] \in Names(catalog[last.table])

\* A call resolved the schema from the cache, added x and y, and returned x and y
C29_Witness ==
    /\ last.op = "ensure_columns" /\ last.res = "Ok" /\ last.out = <<N_x, N_y>>
    /\ "PRAGMA" \notin last.sql /\ KeysOf(last.newcols) = {N_x, N_y}
    /\ {N_x, N_y} \subseteq Names(catalog[T_t])

\* C30 (SpecTables): a step of ensure_table(t), ensure_columns(t, doc) or
\* get_table_stats(t) changes the catalog columns and the cache entry of no
\* table but t: whenever the columns or the cache entry of a table u change,
\* the step was taken by a call in flight whose table is u.
C30_OtherTablesUntouched ==
    [][ \A u \in DOMAIN catalog :
            (catalog'[u] # catalog[u] \/ CacheEntry(cache', u) # CacheEntry(cache, u)) =>
                \E p \in DOMAIN proc :
                    proc'[p] # proc[p] /\ proc[p].pc # "idle" /\ proc[p].table = u
      ]_vars

\* Columns were added to t and its cache entry removed while u kept its cache
\* entry and its base columns
C30_Witness ==
    /\ last.op = "ensure_columns" /\ last.table = T_t /\ last.res = "Ok"
    /\ last.cw = {"insert", "remove"} /\ N_x \in Names(catalog[T_t])
    /\ T_t \notin DOMAIN cache
    /\ T_u \in DOMAIN cache /\ cache[T_u] = BaseColumns /\ catalog[T_u] = BaseColumns

\* C31 (SpecFair): no call that waits on the storage engine (catalog fetch,
\* CREATE TABLE, ALTER batch, row count) holds a reference into the schema
\* cache, and under fair scheduling every call of ensure_table, ensure_columns
\* and get_table_stats eventually returns: the calls made being finitely many,
\* from some point on no call is in flight.
C31_EveryCallReturns ==
    /\ [](\A p \in DOMAIN proc :
             proc[p].pc \in {"fetch", "create", "alter", "count"} => ~proc[p].holds)
    /\ <>[](\A p \in Tasks : proc[p].pc = "idle")

\* Two calls on the same table wait on the engine at once, one of them about
\* to run its ALTER batch, while the table has a cache entry
C31_Witness ==
    /\ \E p \in Tasks, q \in Tasks :
         /\ p # q /\ proc[p].pc = "alter" /\ proc[q].pc \in {"fetch", "alter", "count"}
         /\ proc[p].table = proc[q].table
    /\ T_t \in DOMAIN cache

\* C32 (SpecPush): a push whose document fails validation, to a collection that
\* had no table when the request arrived, answers the error and leaves the
\* catalog as it was: with no other request made, the collection still has no
\* table and no row.
C32_InvalidPushNoEffect ==
    \A p \in Tasks :
        (/\ handler[p].stage = "done" /\ handler[p].res \in {"InvalidIdentifier", "InvalidPayload"}
         /\ ~handler[p].existed
         /\ \A q \in Tasks \ {p} : handler[q].stage = "idle") =>
            /\ catalog[handler[p].collection] = {}
            /\ rows[handler[p].collection] = <<>>

\* C33 (SpecPush): the id a push answers is the rowid of the row its own INSERT
\* made, whatever the interleaving with other pushes.
C33_PushReturnsOwnRowid ==
    \A p \in Tasks :
        (handler[p].stage = "done" /\ handler[p].res = "Ok") =>
            /\ handler[p].id = handler[p].inserted
            /\ rows[handler[p].collection][handler[p].id] = p

----------------------------------------------------------------------------
(* Sessions and refresh tokens *)

\* C34: a refresh token is single-use: in every interleaving at most one
\* refresh presenting a given token returns Ok, so a stored session never
\* has more than one successor.
C34_RefreshTokenSingleUse ==
    \A tok \in 1..Len(issued) :
        Cardinality({k \in DOMAIN issued : issued[k].parent = tok}) <= 1

\* C35: refresh never creates a session from a session whose stored
\* expires_at was in the past when refresh was called.
C35_ExpiredSessionRefused ==
    \A k \in DOMAIN issued :
        issued[k].parent # UnknownToken =>
            issued[issued[k].parent].expires_at >= issued[k].started

----------------------------------------------------------------------------
(* Buckets and objects *)

\* C36: delete_bucket removes a bucket only when it is empty: in no
\* interleaving with upload_object is the row of a bucket deleted while the
\* bucket holds an object whose upload returned Ok.
C36_BucketRemovedOnlyWhenEmpty ==
    [][\A b \in buckets \ buckets' : objects_in(b) \cap uploaded = {}]_vars

----------------------------------------------------------------------------
(* Promotion and the common type *)

\* C37: for all types a and b, a.can_promote_to(b) is true exactly when
\* common_type(a, b) is b.
C37_PromotesIffCommonTypeIsOther ==
    val.fn = "can_promote_to" =>
        (val.out <=> (common_type(val.a, val.b) = val.b))

\* Integer promotes to Real, and Real is their common type
C37_Witness ==
    /\ val.fn = "can_promote_to" /\ val.a = "Integer" /\ val.b = "Real"
    /\ val.out /\ common_type(val.a, val.b) = "Real"

====
